---- MODULE Spec2Model ----
(***************************************************************************)
(* Live-analysis streaming client of the web dashboard:                    *)
(*   useJobStream   (hooks/useSSE, src/packages/web/app/mindmap/page.tsx)  *)
(*   ChatContainer  (src/unnamed/part_014)                                 *)
(*   job store      (src/packages/web/store/jobStore.ts)                   *)
(*   sidebar store  (src/unnamed/part_019), chat store (part_021)          *)
(*                                                                         *)
(* React state that a handler sets is visible to the closures of the       *)
(* component only after the next render; the zustand stores change at      *)
(* once.  Render is therefore a step of its own: it drains the queued      *)
(* sseNodes updaters, refreshes the callbacks' view of streamingJobId and  *)
(* re-runs the effects whose dependencies changed.                         *)
(***************************************************************************)
EXTENDS Integers, Sequences, FiniteSets, TLC

\* ------------------------------------------------------------------ bounds
MaxJobs == 2
MaxPolledJobs == 1
NumWorkers == 2
MaxPending == 1
MaxEvents == 3
MaxInflight == 1
MaxOverlap == 2
MaxHookJobs == 2
MaxHookPulls == 2
MaxHookConns == 2
MaxRemounts == 1

\* --------------------------------------------------------------- constants
NULL == 0 - 1
ABSENT == 0 - 1
NONE == ""
MockJob == 0
FullProgress == 100

JobIds == 1..MaxJobs

AllWorkerNames ==
  <<"Market Research", "Patent Search", "Clinical Trials", "Web Intel", "Literature">>

WorkerNames == SubSeq(AllWorkerNames, 1, IF NumWorkers < 5 THEN NumWorkers ELSE 5)

mockJobs ==
  MockJob :> [status |-> "running", progress |-> 65,
              workers |-> << [name |-> "Market Research", status |-> "completed", progress |-> 100],
                             [name |-> "Patent Finder", status |-> "running", progress |-> 75],
                             [name |-> "Clinical Data", status |-> "running", progress |-> 50],
                             [name |-> "Web Intelligence", status |-> "pending", progress |-> 0] >>]

\* ----------------------------------------------------------------- helpers
RECURSIVE SumProgress(_)
SumProgress(ws) ==
  IF ws = <<>> THEN 0 ELSE Head(ws).progress + SumProgress(Tail(ws))

\* Math.round(sum / n) for a non-negative integer sum: floor(sum/n + 1/2)
RoundDiv(sum, n) == (2 * sum + n) \div (2 * n)

MeanProgress(ws) == RoundDiv(SumProgress(ws), Len(ws))

\* jobStore.updateJob: merges the given fields into every job with that id
updateJob(js, id, upd) ==
  [k \in DOMAIN js |->
     IF k = id
       THEN [status |-> IF upd.status = NONE THEN js[k].status ELSE upd.status,
             progress |-> IF upd.progress = ABSENT THEN js[k].progress ELSE upd.progress,
             workers |-> js[k].workers]
       ELSE js[k]]

\* jobStore.updateWorkerStatus: merges status/progress into the workers of
\* that job whose name matches
updateWorkerStatus(js, jobId, workerName, st, pr) ==
  [k \in DOMAIN js |->
     IF k # jobId THEN js[k]
     ELSE [js[k] EXCEPT !.workers =
             [i \in 1..Len(js[k].workers) |->
                IF js[k].workers[i].name = workerName
                  THEN [name |-> workerName, status |-> st, progress |-> pr]
                  ELSE js[k].workers[i]]]]

\* index of the entry with that nodeId, 0 when there is none (findIndex)
findIndex(list, nodeId) ==
  IF \E i \in 1..Len(list) : list[i].nodeId = nodeId
    THEN CHOOSE i \in 1..Len(list) :
           /\ list[i].nodeId = nodeId
           /\ \A k \in 1..(i - 1) : list[k].nodeId # nodeId
    ELSE 0

\* (faulty variant: an id already listed keeps its first entry)
upsertNode_keepFirst(list, node) ==
  IF findIndex(list, node.nodeId) > 0 THEN list ELSE Append(list, node)

\* the updater of ChatContainer.onNodeUpdate / sidebarStore.updatePipelineNode
upsertNode(list, node) ==
  LET existing == findIndex(list, node.nodeId)
  IN IF existing > 0 THEN [list EXCEPT ![existing] = node]
     ELSE Append(list, node)


\* ------------------------------------------------------------------- state
VARIABLES
  \* zustand stores (module-level, survive a remount, change at once)
  jobs,             \* jobStore.jobs: job id -> [status, progress, workers]
  currentJobId,     \* chatStore.currentJobId
  messages,         \* chatStore.messages: the contents of the assistant messages added
  pipelineNodes,    \* sidebarStore.pipelineNodes
  mindMapData,      \* sidebarStore.mindMapData
  isMindMapOpen,    \* sidebarStore.isMindMapOpen
  \* ChatContainer instance
  mounted,
  remounts,         \* how often the chat page was left so far
  streamingJobId,   \* useState: the value after the setters called so far
  rStreamingJobId,  \* streamingJobId as of the last render (what the callbacks close over)
  sseNodes,         \* useState, as of the last render
  sseQueue,         \* setSseNodes calls not yet applied by a render
  pollTimer,        \* pollIntervalRef: NULL, or the job id its interval polls
  pollDeps,         \* dependencies of the polling effect at its last run
  pollInflight,     \* job id -> status pulls awaiting their response
  simJobs,          \* `jobs` as closed over by the simulateProgress that pollJobStatus calls
  \* useJobStream instance
  isConnected, nodes, progress, status, error, isComplete,
  esRef,            \* eventSourceRef.current: NULL or a connection id
  effDeps,          \* [jobId, isComplete] at the last run of the effect, and whether it returned a cleanup
  conns,            \* EventSource objects: [id, job, isc (isComplete closed over by onerror),
                    \*   open, left (messages the server still sends on it)]
  \* observation
  lastOp,           \* the step just taken: its handler, connection and ordered effects
  lastEv,           \* node id -> the last node_update delivered for it to this hook instance
  sseHist,          \* node id -> the last node_update delivered since sseNodes was last reset
  faulted           \* the jobs whose stream delivered an error event

VARIABLES
  \* MindMapView (the sidebar's graph model)
  mmData,           \* the data prop / allNodesRef, allEdgesRef: [nodes, edges]
  expandedState,    \* useState Map<string, boolean>: node id -> explicit expansion
  mmNodes,          \* useNodesState: the committed nodes, [id, isExpanded]
  mmEdges,          \* useEdgesState: the committed edges, [id, source, target]
  mmOp,             \* the step MindMapView took last and the one before it, with the
                    \*   node ids and edges shown before each
  \* MindMapCanvas (the full-page canvas)
  cvNodes,          \* useNodesState: [id, isExpanded, hasChildIds, childIds]
  cvEdges,          \* useEdgesState: [id, source, target]
  cvOp              \* the step MindMapCanvas took last, with the node ids and
                    \*   edges shown before it and before the step preceding it

VARIABLES
  \* useJob (the mobile polling hook)
  ujJobId,          \* useState jobId: the value after the setters called so far
  ujIsPolling,      \* useState isPolling, likewise
  ujJobStatus,      \* useState jobStatus: NONE or the last answer, [job, status]
  ujError,          \* useState error
  ujRender,         \* [jobId, isPolling] as of the last render (what fetchStatus and
                    \*   startPolling close over) and whether a setter asked for a render
  ujTimers,         \* the live intervals: [id, job (the jobId its fetchStatus closed over)]
  ujRef,            \* intervalRef.current: NULL or a timer id
  ujInflight,       \* job id -> getJobStatus calls awaiting their answer
  ujStable,         \* whether the caller passes the same onComplete/onError every render
  ujStarted,        \* the id last handed to startPolling
  ujOp,             \* the step useJob took last and the job id its fetchStatus asked for
  \* useJobPolling (the web polling hook)
  jpJobId,          \* the jobId argument at the last run of the effect
  jpIsPolling,      \* useState isPolling
  jpTimers,         \* the live intervals, each the jobId its poll closed over
  jpInflight,       \* job id -> fetches awaiting their answer
  jpReported,       \* a pull reported completed or failed for jpJobId since the effect ran
  jpOp              \* the step useJobPolling took last

mobileVars == <<ujJobId, ujIsPolling, ujJobStatus, ujError, ujRender, ujTimers, ujRef,
                ujInflight, ujStable, ujStarted, ujOp>>
pollHookVars == <<jpJobId, jpIsPolling, jpTimers, jpInflight, jpReported, jpOp>>

graphVars == <<mmData, expandedState, mmNodes, mmEdges, mmOp>>
canvasVars == <<cvNodes, cvEdges, cvOp>>

storeVars == <<jobs, currentJobId, messages, pipelineNodes, mindMapData, isMindMapOpen>>
chatVars == <<mounted, remounts, streamingJobId, rStreamingJobId, sseNodes, sseQueue, pollTimer,
              pollDeps, pollInflight, simJobs>>
hookVars == <<isConnected, nodes, progress, status, error, isComplete, esRef, effDeps, conns>>
obsVars == <<lastOp, lastEv, sseHist, faulted>>
vars == <<storeVars, chatVars, hookVars, obsVars, graphVars, canvasVars, mobileVars,
          pollHookVars>>

EmptyFn == [x \in {} |-> x]

\* the record of a step: the handler that ran, the EventSource it ran for and
\* whether the hook had already let go of it, the setters, callbacks and close()
\* it called in order, the job it closed over or was called with, and for a
\* complete event the event and the argument handed to onComplete, for an
\* answered status pull the status and result.summary of the answer
Op(name, connId, stale, fx) ==
  [op |-> name, conn |-> connId, stale |-> stale, fx |-> fx, job |-> NULL, ev |-> NONE,
   arg |-> NONE, respStatus |-> NONE, respSummary |-> NONE]

currentJobStatus(js, cur) == IF cur \in DOMAIN js THEN js[cur].status ELSE "undefined"

\* ------------------------------------------------------------ useJobStream
\* (faulty variant: the reference is dropped without close())
disconnect_noClose(cs, ref, connected) ==
  [conns |-> cs, ref |-> NULL, isConnected |-> FALSE]

\* disconnect(): closes the referenced EventSource, forgets it, setIsConnected(false)
disconnect(cs, ref, connected) ==
  [conns |-> {IF c.id = ref THEN [c EXCEPT !.open = FALSE] ELSE c : c \in cs},
   ref |-> NULL, isConnected |-> FALSE]

freshConnId(cs) == CHOOSE n \in 1..(Cardinality(cs) + 1) : \A c \in cs : c.id # n

\* (faulty variant: the effect returns no cleanup)
streamEffect_noCleanup(cs, ref, connected, jobId, isc, hadCleanup) ==
  IF jobId = NULL
    THEN [cleanup |-> FALSE] @@ disconnect(cs, ref, connected)
    ELSE [cleanup |-> TRUE, conns |-> cs \cup {[id |-> freshConnId(cs), job |-> jobId,
                                                isc |-> isc, open |-> TRUE, left |-> MaxEvents]},
          ref |-> freshConnId(cs), isConnected |-> connected]

\* the effect of useJobStream, run because [jobId, isComplete] changed (or on mount):
\* the previous run's cleanup, then the body
streamEffect(cs, ref, connected, jobId, isc, hadCleanup) ==
  LET c1 == IF hadCleanup THEN disconnect(cs, ref, connected)
            ELSE [conns |-> cs, ref |-> ref, isConnected |-> connected]
  IN IF jobId = NULL
       THEN [cleanup |-> FALSE] @@ disconnect(c1.conns, c1.ref, c1.isConnected)
       ELSE [cleanup |-> TRUE,
             conns |-> c1.conns \cup {[id |-> freshConnId(c1.conns), job |-> jobId,
                                       isc |-> isc, open |-> TRUE, left |-> MaxEvents]},
             ref |-> freshConnId(c1.conns), isConnected |-> c1.isConnected]

\* the NodeState built from a node_update event
nodeStateOf(ev) ==
  [nodeId |-> ev.node_id,
   nodeName |-> IF ev.node_name = NONE THEN ev.node_id ELSE ev.node_name,
   status |-> IF ev.status = NONE THEN "pending" ELSE ev.status,
   progress |-> IF ev.progress = ABSENT THEN 0 ELSE ev.progress,
   thought |-> ev.thought]

\* (faulty variant: the updater starts from an empty map)
setNode_fromEmpty(prev, node) == [k \in {node.nodeId} |-> node]

\* setNodes updater: next = new Map(prev); next.set(node_id, nodeState)
setNode(prev, node) ==
  [k \in DOMAIN prev \cup {node.nodeId} |-> IF k = node.nodeId THEN node ELSE prev[k]]

\* ------------------------------------------------------------ ChatContainer
\* a render applies the queued setSseNodes calls in order; an updater of
\* onNodeUpdate also calls setPipelineNodes(next)
RECURSIVE drainQueue(_, _, _)
drainQueue(q, cur, pipe) ==
  IF q = <<>> THEN [sse |-> cur, pipe |-> pipe]
  ELSE IF Head(q).kind = "reset" THEN drainQueue(Tail(q), <<>>, pipe)
  ELSE LET next == upsertNode(cur, Head(q).node)
       IN drainQueue(Tail(q), next, next)

\* the polling effect: cleanup of the previous run, then the body
pollEffect(cur, st) == IF cur # NULL /\ st = "running" THEN cur ELSE NULL

newJob(st, firstWorker) ==
  [status |-> st, progress |-> 0,
   workers |-> [i \in 1..Len(WorkerNames) |->
                  [name |-> WorkerNames[i],
                   status |-> IF i = 1 THEN firstWorker ELSE "pending",
                   progress |-> 0]]]

freshJobId == CHOOSE j \in JobIds : j \notin DOMAIN jobs /\ \A k \in JobIds : k < j => k \in DOMAIN jobs

\* ------------------------------------------------------------- MindMapView
\* a BackendNode: parentId NONE when absent, childIds possibly absent
GNode(id, parentId, hasChildIds, childIds) ==
  [id |-> id, parentId |-> parentId, hasChildIds |-> hasChildIds, childIds |-> childIds]

GEdge(id, source, target) == [id |-> id, source |-> source, target |-> target]

\* no mind map yet: MindMapSidebar does not render MindMapView
NoData == [nodes |-> <<>>, edges |-> {}]

\* mind-map payloads (hierarchies: childIds and parentId have no cycle)
\* a tree: one root, one molecule, two products (childIds absent / empty)
GraphA ==
  [nodes |-> << GNode("disease-1", NONE, TRUE, <<"mol-1">>),
                GNode("mol-1", "disease-1", TRUE, <<"prod-1", "prod-2">>),
                GNode("prod-1", "mol-1", FALSE, <<>>),
                GNode("prod-2", "mol-1", TRUE, <<>>) >>,
   edges |-> { GEdge("e-d1-m1", "disease-1", "mol-1"),
               GEdge("e-m1-p1", "mol-1", "prod-1"),
               GEdge("e-m1-p2", "mol-1", "prod-2") }]

\* a shared child, a child id and an edge end that name no node, a node
\* without parentId that is also listed as a child, a parentId that names no node
GraphB ==
  [nodes |-> << GNode("disease-1", NONE, TRUE, <<"mol-1", "ghost">>),
                GNode("disease-2", NONE, TRUE, <<"mol-1", "prod-1">>),
                GNode("mol-1", "disease-1", TRUE, <<"prod-1">>),
                GNode("prod-1", NONE, TRUE, <<"prod-2">>),
                GNode("prod-2", "lost", FALSE, <<>>) >>,
   edges |-> { GEdge("e-d1-m1", "disease-1", "mol-1"),
               GEdge("e-d2-m1", "disease-2", "mol-1"),
               GEdge("e-d2-p1", "disease-2", "prod-1"),
               GEdge("e-m1-p1", "mol-1", "prod-1"),
               GEdge("e-p1-p2", "prod-1", "prod-2"),
               GEdge("e-d1-gh", "disease-1", "ghost") }]

\* a node whose parentId puts it at depth 1 while the walk reaches it at depth 2,
\* and a node with a parentId that no childIds lists
GraphC ==
  [nodes |-> << GNode("disease-1", NONE, TRUE, <<"mol-1">>),
                GNode("mol-1", "disease-1", TRUE, <<"mol-2">>),
                GNode("mol-2", "disease-1", TRUE, <<"prod-1">>),
                GNode("prod-1", "mol-2", FALSE, <<>>),
                GNode("mol-3", "disease-1", TRUE, <<"prod-1">>) >>,
   edges |-> { GEdge("e-d1-m1", "disease-1", "mol-1"),
               GEdge("e-m1-m2", "mol-1", "mol-2"),
               GEdge("e-m2-p1", "mol-2", "prod-1"),
               GEdge("e-d1-m3", "disease-1", "mol-3"),
               GEdge("e-p1-d1", "prod-1", "disease-1") }]

Graphs == {GraphA, GraphB, GraphC}

nodeIds(allNodes) == {allNodes[i].id : i \in 1..Len(allNodes)}

\* allNodes.find(n => n.id === nodeId), for an id that is there
findNode(allNodes, nodeId) ==
  allNodes[CHOOSE i \in 1..Len(allNodes) :
             /\ allNodes[i].id = nodeId
             /\ \A k \in 1..(i - 1) : allNodes[k].id # nodeId]

\* getNodeDepth / findDepth: the number of parentId links up to a node
\* without parentId or an id that names no node
RECURSIVE getNodeDepth(_, _, _)
getNodeDepth(allNodes, nodeId, depth) ==
  IF nodeId \notin nodeIds(allNodes) THEN depth
  ELSE IF findNode(allNodes, nodeId).parentId = NONE THEN depth
  ELSE getNodeDepth(allNodes, findNode(allNodes, nodeId).parentId, depth + 1)

seqRange(q) == {q[i] : i \in 1..Len(q)}

\* (faulty variant: the first two layers are expanded by default)
RECURSIVE addVisibleNodes_twoLayers(_, _, _, _)
addVisibleNodes_twoLayers(allNodes, expanded, nodeId, depth) ==
  IF nodeId \notin nodeIds(allNodes) THEN {}
  ELSE LET node == findNode(allNodes, nodeId)
           isExpanded == IF nodeId \in DOMAIN expanded THEN expanded[nodeId] ELSE depth < 2
       IN {nodeId} \cup
          (IF isExpanded /\ node.hasChildIds
             THEN UNION {addVisibleNodes_twoLayers(allNodes, expanded, c, depth + 1)
                          : c \in seqRange(node.childIds)}
             ELSE {})

\* addVisibleNodes: the ids the walk from nodeId at the given depth adds
RECURSIVE addVisibleNodes(_, _, _, _)
addVisibleNodes(allNodes, expanded, nodeId, depth) ==
  IF nodeId \notin nodeIds(allNodes) THEN {}
  ELSE LET node == findNode(allNodes, nodeId)
           isExpanded == IF nodeId \in DOMAIN expanded THEN expanded[nodeId] ELSE depth < 1
       IN {nodeId} \cup
          (IF isExpanded /\ node.hasChildIds
             THEN UNION {addVisibleNodes(allNodes, expanded, c, depth + 1)
                          : c \in seqRange(node.childIds)}
             ELSE {})

rootIds(allNodes) == {allNodes[i].id : i \in {k \in 1..Len(allNodes) : allNodes[k].parentId = NONE}}

\* visibleNodeIds after the walk from every node without parentId
visibleNodeIds(allNodes, expanded) ==
  UNION {addVisibleNodes(allNodes, expanded, r, 0) : r \in rootIds(allNodes)}

\* (faulty variant: an edge is kept when its source is visible)
visibleEdges_sourceOnly(allEdges, visible) == {e \in allEdges : e.source \in visible}

\* rfEdges: the edges whose source and target are both visible
visibleEdges(allEdges, visible) ==
  {e \in allEdges : e.source \in visible /\ e.target \in visible}

\* getVisibleNodesAndEdges (coordinates of the layout are not modelled)
getVisibleNodesAndEdges(allNodes, allEdges, expanded) ==
  LET visible == visibleNodeIds(allNodes, expanded)
  IN [nodes |-> {[id |-> id,
                  isExpanded |-> IF id \in DOMAIN expanded THEN expanded[id]
                                 ELSE getNodeDepth(allNodes, id, 0) < 1] : id \in visible},
      edges |-> visibleEdges(allEdges, visible)]

\* (faulty variant: the toggle takes the first two layers as expanded by default)
nextExpandedState_twoLayers(allNodes, prev, nodeId) ==
  LET currentState == IF nodeId \in DOMAIN prev THEN prev[nodeId]
                      ELSE getNodeDepth(allNodes, nodeId, 0) < 2
  IN [k \in DOMAIN prev \cup {nodeId} |-> IF k = nodeId THEN ~currentState ELSE prev[k]]

\* (faulty variant: the toggle starts from a new, empty map)
nextExpandedState_fresh(allNodes, prev, nodeId) ==
  LET currentState == IF nodeId \in DOMAIN prev THEN prev[nodeId]
                      ELSE getNodeDepth(allNodes, nodeId, 0) < 1
  IN [k \in {nodeId} |-> ~currentState]

\* (faulty variant: an entry that equals the depth default is dropped)
nextExpandedState_sparse(allNodes, prev, nodeId) ==
  LET dflt == getNodeDepth(allNodes, nodeId, 0) < 1
      currentState == IF nodeId \in DOMAIN prev THEN prev[nodeId] ELSE dflt
      keys == IF ~currentState = dflt THEN DOMAIN prev \ {nodeId} ELSE DOMAIN prev \cup {nodeId}
  IN [k \in keys |-> IF k = nodeId THEN ~currentState ELSE prev[k]]

\* the updater of handleNodeExpand: next = new Map(prev); next.set(nodeId, !currentState)
nextExpandedState(allNodes, prev, nodeId) ==
  LET currentState == IF nodeId \in DOMAIN prev THEN prev[nodeId]
                      ELSE getNodeDepth(allNodes, nodeId, 0) < 1
  IN [k \in DOMAIN prev \cup {nodeId} |-> IF k = nodeId THEN ~currentState ELSE prev[k]]

\* (faulty variant: the data-change effect keeps the expansion map)
resetExpandedState_keep(prev) == prev

\* the data-change effect's new Map()
resetExpandedState(prev) == [x \in {} |-> x]


\* ----------------------------------------------------------- MindMapCanvas
\* a displayed React Flow node: data.isExpanded (absent counts as false), data.childIds
CNode(id, isExpanded, hasChildIds, childIds) ==
  [id |-> id, isExpanded |-> isExpanded, hasChildIds |-> hasChildIds, childIds |-> childIds]

hierarchicalMindMapData ==
  [nodes |-> << GNode("disease-1", NONE, TRUE, <<"mol-1", "mol-2">>),
                GNode("disease-2", NONE, TRUE, <<"mol-1", "mol-3">>),
                GNode("mol-1", "disease-1", TRUE, <<"prod-1", "prod-2", "prod-3">>),
                GNode("mol-2", "disease-1", TRUE, <<"prod-4", "prod-5">>),
                GNode("mol-3", "disease-2", TRUE, <<"prod-6", "prod-7">>),
                GNode("prod-1", "mol-1", FALSE, <<>>),
                GNode("prod-2", "mol-1", FALSE, <<>>),
                GNode("prod-3", "mol-1", FALSE, <<>>),
                GNode("prod-4", "mol-2", FALSE, <<>>),
                GNode("prod-5", "mol-2", FALSE, <<>>),
                GNode("prod-6", "mol-3", FALSE, <<>>),
                GNode("prod-7", "mol-3", FALSE, <<>>) >>,
   edges |-> { GEdge("e-d1-m1", "disease-1", "mol-1"),
               GEdge("e-d1-m2", "disease-1", "mol-2"),
               GEdge("e-d2-m1", "disease-2", "mol-1"),
               GEdge("e-d2-m3", "disease-2", "mol-3"),
               GEdge("e-m1-p1", "mol-1", "prod-1"),
               GEdge("e-m1-p2", "mol-1", "prod-2"),
               GEdge("e-m1-p3", "mol-1", "prod-3"),
               GEdge("e-m2-p4", "mol-2", "prod-4"),
               GEdge("e-m2-p5", "mol-2", "prod-5"),
               GEdge("e-m3-p6", "mol-3", "prod-6"),
               GEdge("e-m3-p7", "mol-3", "prod-7") }]

\* what the canvas shows first
mockMindMapData ==
  [nodes |-> { CNode("disease-1", TRUE, TRUE, <<"mol-1", "mol-2">>),
               CNode("disease-2", FALSE, TRUE, <<"mol-1", "mol-3">>),
               CNode("mol-1", TRUE, TRUE, <<"prod-1", "prod-2", "prod-3">>),
               CNode("prod-1", FALSE, FALSE, <<>>),
               CNode("prod-2", FALSE, FALSE, <<>>),
               CNode("prod-3", FALSE, FALSE, <<>>) },
   edges |-> { GEdge("e-d1-m1", "disease-1", "mol-1"),
               GEdge("e-d2-m1", "disease-2", "mol-1"),
               GEdge("e-m1-p1", "mol-1", "prod-1"),
               GEdge("e-m1-p2", "mol-1", "prod-2"),
               GEdge("e-m1-p3", "mol-1", "prod-3") }]

shownIds(currentNodes) == {n.id : n \in currentNodes}

\* currentNodes.find(n => n.id === nodeId), for an id that is shown
shownNode(currentNodes, nodeId) == CHOOSE n \in currentNodes : n.id = nodeId

\* getDescendants: the ids and, below a shown child that is expanded, its
\* children in hierarchicalMindMapData, and so on
RECURSIVE getDescendants(_, _)
getDescendants(ids, currentNodes) ==
  UNION {{id} \cup
         (IF /\ id \in nodeIds(hierarchicalMindMapData.nodes)
             /\ findNode(hierarchicalMindMapData.nodes, id).hasChildIds
             /\ Len(findNode(hierarchicalMindMapData.nodes, id).childIds) > 0
             /\ \E n \in currentNodes : n.id = id /\ n.isExpanded
            THEN getDescendants(seqRange(findNode(hierarchicalMindMapData.nodes, id).childIds),
                                currentNodes)
            ELSE {})
         : id \in ids}

setExpanded(currentNodes, nodeId, value) ==
  {IF n.id = nodeId THEN [n EXCEPT !.isExpanded = value] ELSE n : n \in currentNodes}

\* the expanding branch: children not yet shown are added (collapsed), the
\* edges from the node to its children that `edges` does not hold are added
expandNode(currentNodes, edges, nodeId) ==
  LET childIds == seqRange(shownNode(currentNodes, nodeId).childIds)
      newNodes == {CNode(c, FALSE, findNode(hierarchicalMindMapData.nodes, c).hasChildIds,
                         findNode(hierarchicalMindMapData.nodes, c).childIds)
                   : c \in (childIds \ shownIds(currentNodes))
                           \cap nodeIds(hierarchicalMindMapData.nodes)}
      newEdges == {e \in hierarchicalMindMapData.edges :
                     /\ e.source = nodeId /\ e.target \in childIds
                     /\ e.id \notin {x.id : x \in edges}}
  IN [nodes |-> setExpanded(currentNodes, nodeId, TRUE) \cup newNodes,
      edges |-> edges \cup newEdges]

\* the collapsing branch: the descendants and the edges that touch them go
collapseNode(currentNodes, edges, nodeId) ==
  LET descendantIds == getDescendants(seqRange(shownNode(currentNodes, nodeId).childIds),
                                      currentNodes)
  IN [nodes |-> setExpanded({n \in currentNodes : n.id \notin descendantIds}, nodeId, FALSE),
      edges |-> {e \in edges : e.source \notin descendantIds /\ e.target \notin descendantIds}]

\* the setNodes updater of MindMapCanvas.handleNodeExpand with its setEdges calls
toggleNode(currentNodes, edges, nodeId) ==
  IF nodeId \notin shownIds(currentNodes) THEN [nodes |-> currentNodes, edges |-> edges]
  ELSE IF \/ ~shownNode(currentNodes, nodeId).hasChildIds
          \/ Len(shownNode(currentNodes, nodeId).childIds) = 0
    THEN [nodes |-> currentNodes, edges |-> edges]
  ELSE IF ~shownNode(currentNodes, nodeId).isExpanded
    THEN expandNode(currentNodes, edges, nodeId)
    ELSE collapseNode(currentNodes, edges, nodeId)

hookInit ==
  /\ isConnected = FALSE /\ nodes = EmptyFn /\ progress = 0 /\ status = "pending"
  /\ error = NONE /\ isComplete = FALSE /\ esRef = NULL
  /\ effDeps = [jobId |-> NULL, isComplete |-> FALSE, cleanup |-> FALSE]

chatInit ==
  /\ jobs = mockJobs /\ currentJobId = NULL /\ messages = {} /\ pipelineNodes = <<>>
  /\ mindMapData = NONE /\ isMindMapOpen = FALSE
  /\ mounted = TRUE /\ remounts = 0 /\ streamingJobId = NULL /\ rStreamingJobId = NULL
  /\ sseNodes = <<>> /\ sseQueue = <<>> /\ pollTimer = NULL
  /\ pollDeps = <<NULL, "undefined">>
  /\ pollInflight = [j \in JobIds |-> 0]
  /\ simJobs = mockJobs
  /\ hookInit /\ conns = {}
  /\ lastOp = Op("mount", NULL, FALSE, <<>>) /\ lastEv = EmptyFn /\ sseHist = EmptyFn
  /\ faulted = {}

\* what is on screen: the ids of the nodes and the edges
shown(ns, es) == [nodes |-> {n.id : n \in ns}, edges |-> es]

\* the record of a first render / of no render
firstStep(name, ns, es) ==
  [op |-> name, node |-> NONE, prevOp |-> "none", prevNode |-> NONE,
   pre |-> shown(ns, es), pre2 |-> shown(ns, es)]

\* the record of a step taken after the step `last`, from the nodes and edges ns, es
nextStep(name, nodeId, last, ns, es) ==
  [op |-> name, node |-> nodeId, prevOp |-> last.op, prevNode |-> last.node,
   pre |-> shown(ns, es), pre2 |-> last.pre]

\* MindMapCanvas as first rendered (the mind-map page is shown)
canvasInit ==
  /\ cvNodes = mockMindMapData.nodes /\ cvEdges = mockMindMapData.edges
  /\ cvOp = firstStep("mount", cvNodes, cvEdges)

\* the mind-map page is not shown
canvasIdle ==
  /\ cvNodes = {} /\ cvEdges = {} /\ cvOp = firstStep("none", {}, {})

\* no mind map in the sidebar: MindMapView is not rendered
mindMapIdle ==
  /\ mmData = NoData /\ expandedState = EmptyFn /\ mmNodes = {} /\ mmEdges = {}
  /\ mmOp = firstStep("none", {}, {})

\* the chat page as loaded
HookJobIds == 1..MaxHookJobs

\* useJob after its first render, with callbacks that keep their identity (stable)
\* or are created anew by every render of the caller
useJobInit(stable) ==
  /\ ujJobId = NULL /\ ujIsPolling = FALSE /\ ujJobStatus = NONE /\ ujError = NONE
  /\ ujRender = [jobId |-> NULL, isPolling |-> FALSE, dirty |-> FALSE]
  /\ ujTimers = {} /\ ujRef = NULL /\ ujInflight = [j \in HookJobIds |-> 0]
  /\ ujStable = stable /\ ujStarted = NULL /\ ujOp = [op |-> "none", asked |-> NULL]

\* useJobPolling(null) after its first render and effect
useJobPollingInit ==
  /\ jpJobId = NULL /\ jpIsPolling = FALSE /\ jpTimers = {}
  /\ jpInflight = [j \in HookJobIds |-> 0] /\ jpReported = FALSE
  /\ jpOp = [op |-> "none", asked |-> NULL]

hooksIdle == useJobInit(TRUE) /\ useJobPollingInit

Init ==
  /\ chatInit /\ mindMapIdle /\ canvasIdle /\ hooksIdle


\* ------------------------------------------------------- the event stream
\* one message of the stream: the JSON body, absent fields as NONE / ABSENT
Ev(t) ==
  [type |-> t, status |-> NONE, progress |-> ABSENT, node_id |-> NONE, node_name |-> NONE,
   thought |-> NONE, mind_map_data |-> NONE, final_report |-> NONE, error |-> NONE]

ProgressEvents == { [Ev("progress") EXCEPT !.progress = 50] }

NodeEvents ==
  { [Ev("node_update") EXCEPT !.node_id = "n1", !.node_name = "Market Research",
                              !.status = "running", !.progress = 30, !.thought = "searching"],
    [Ev("node_update") EXCEPT !.node_id = "n1", !.node_name = "Market Research",
                              !.status = "completed", !.progress = 100],
    [Ev("node_update") EXCEPT !.node_id = "n2"] }

CompleteEvents ==
  { [Ev("complete") EXCEPT !.final_report = "report", !.mind_map_data = "graph"],
    Ev("complete") }

ErrorEvents == { [Ev("error") EXCEPT !.error = "worker crashed"] }

\* not parseable, unknown type, node_update without node_id
MalformedEvents == { Ev("unparseable"), Ev("bogus"), Ev("node_update") }

isOpenConn(c) == c \in conns /\ c.open

\* the server sends the next message on c
canReceive(c) == isOpenConn(c) /\ c.left > 0

received(cs, c) == {IF x = c THEN [x EXCEPT !.left = @ - 1] ELSE x : x \in cs}

\* eventSource.onopen
OnOpen(c) ==
  /\ isOpenConn(c)
  /\ isConnected' = TRUE
  /\ error' = NONE
  /\ lastOp' = Op("open", c.id, c.id # esRef, <<"setIsConnected", "setError">>)
  /\ UNCHANGED <<storeVars, chatVars, nodes, progress, status, isComplete, esRef, effDeps,
                 conns, lastEv, sseHist, faulted>>

\* onmessage, case "progress"
OnProgress(c, ev) ==
  /\ canReceive(c) /\ ev \in ProgressEvents
  /\ progress' = (IF ev.progress = ABSENT THEN 0 ELSE ev.progress)
  /\ status' = (IF ev.status = NONE THEN "processing" ELSE ev.status)
  /\ jobs' = IF rStreamingJobId # NULL
               THEN updateJob(jobs, rStreamingJobId, [status |-> status', progress |-> progress'])
               ELSE jobs
  /\ conns' = received(conns, c)
  /\ lastOp' = Op("progress", c.id, c.id # esRef, <<"setProgress", "setStatus", "onProgress">>)
  /\ UNCHANGED <<currentJobId, messages, pipelineNodes, mindMapData, isMindMapOpen, chatVars,
                 isConnected, nodes, error, isComplete, esRef, effDeps, lastEv, sseHist, faulted>>

\* onmessage, case "node_update" with a node_id
OnNodeUpdate(c, ev) ==
  /\ canReceive(c) /\ ev \in NodeEvents /\ ev.node_id # NONE
  /\ Len(sseQueue) < MaxPending
  /\ LET nodeState == nodeStateOf(ev)
     IN /\ nodes' = setNode(nodes, nodeState)
        /\ sseQueue' = Append(sseQueue, [kind |-> "node", node |-> nodeState])
        /\ jobs' = IF rStreamingJobId # NULL
                     THEN updateWorkerStatus(jobs, rStreamingJobId, nodeState.nodeName,
                                             nodeState.status, nodeState.progress)
                     ELSE jobs
        /\ lastEv' = setNode(lastEv, [nodeId |-> ev.node_id, ev |-> ev])
        /\ sseHist' = setNode(sseHist, [nodeId |-> ev.node_id, ev |-> ev])
  /\ conns' = received(conns, c)
  /\ lastOp' = Op("node_update", c.id, c.id # esRef, <<"setNodes", "onNodeUpdate">>)
  /\ UNCHANGED <<currentJobId, messages, pipelineNodes, mindMapData, isMindMapOpen,
                 mounted, remounts, streamingJobId, rStreamingJobId, sseNodes, pollTimer, pollDeps,
                 pollInflight, simJobs,
                 isConnected, progress, status, error, isComplete, esRef, effDeps, faulted>>

\* the argument of the caller's onComplete
completeArg(ev) == [mindMapData |-> ev.mind_map_data, finalReport |-> ev.final_report]

\* (faulty variant: disconnect() is called before the caller's onComplete)
OnComplete_closeFirst(c, ev) ==
  /\ canReceive(c) /\ ev \in CompleteEvents
  /\ status' = "completed" /\ progress' = FullProgress /\ isComplete' = TRUE
  /\ IF rStreamingJobId # NULL
       THEN /\ jobs' = updateJob(jobs, rStreamingJobId,
                                 [status |-> "completed", progress |-> FullProgress])
            /\ messages' = IF completeArg(ev).finalReport # NONE
                             THEN messages \cup {completeArg(ev).finalReport}
                             ELSE messages
            /\ mindMapData' = IF completeArg(ev).mindMapData # NONE
                                THEN completeArg(ev).mindMapData ELSE mindMapData
            /\ streamingJobId' = NULL
            /\ sseQueue' = Append(sseQueue, [kind |-> "reset", node |-> NONE])
            /\ pipelineNodes' = <<>>
            /\ sseHist' = EmptyFn
       ELSE UNCHANGED <<jobs, messages, mindMapData, streamingJobId, sseQueue, pipelineNodes,
                        sseHist>>
  /\ LET d == disconnect(received(conns, c), esRef, isConnected)
     IN conns' = d.conns /\ esRef' = d.ref /\ isConnected' = d.isConnected
  /\ lastOp' = [Op("complete", c.id, c.id # esRef,
                   <<"setStatus", "setProgress", "setIsComplete", "close", "onComplete">>)
                  EXCEPT !.job = rStreamingJobId, !.ev = ev, !.arg = completeArg(ev)]
  /\ UNCHANGED <<currentJobId, isMindMapOpen, mounted, remounts, rStreamingJobId, sseNodes, pollTimer,
                 pollDeps, pollInflight, simJobs, nodes, error, effDeps, lastEv, faulted>>

\* (faulty variant: a complete event without final_report adds a canned message)
OnComplete_cannedMessage(c, ev) ==
  /\ canReceive(c) /\ ev \in CompleteEvents
  /\ status' = "completed" /\ progress' = FullProgress /\ isComplete' = TRUE
  /\ IF rStreamingJobId # NULL
       THEN /\ jobs' = updateJob(jobs, rStreamingJobId,
                                 [status |-> "completed", progress |-> FullProgress])
            /\ messages' = IF completeArg(ev).finalReport # NONE
                             THEN messages \cup {completeArg(ev).finalReport}
                             ELSE messages \cup {"Analysis complete."}
            /\ mindMapData' = IF completeArg(ev).mindMapData # NONE
                                THEN completeArg(ev).mindMapData ELSE mindMapData
            /\ streamingJobId' = NULL
            /\ sseQueue' = Append(sseQueue, [kind |-> "reset", node |-> NONE])
            /\ pipelineNodes' = <<>>
            /\ sseHist' = EmptyFn
       ELSE UNCHANGED <<jobs, messages, mindMapData, streamingJobId, sseQueue, pipelineNodes,
                        sseHist>>
  /\ LET d == disconnect(received(conns, c), esRef, isConnected)
     IN conns' = d.conns /\ esRef' = d.ref /\ isConnected' = d.isConnected
  /\ lastOp' = [Op("complete", c.id, c.id # esRef,
                   <<"setStatus", "setProgress", "setIsComplete", "onComplete", "close">>)
                  EXCEPT !.job = rStreamingJobId, !.ev = ev, !.arg = completeArg(ev)]
  /\ UNCHANGED <<currentJobId, isMindMapOpen, mounted, remounts, rStreamingJobId, sseNodes, pollTimer,
                 pollDeps, pollInflight, simJobs, nodes, error, effDeps, lastEv, faulted>>

\* onmessage, case "complete": the state setters, the caller's onComplete, disconnect()
OnComplete(c, ev) ==
  /\ canReceive(c) /\ ev \in CompleteEvents
  /\ status' = "completed" /\ progress' = FullProgress /\ isComplete' = TRUE
  /\ IF rStreamingJobId # NULL
       THEN /\ jobs' = updateJob(jobs, rStreamingJobId,
                                 [status |-> "completed", progress |-> FullProgress])
            /\ messages' = IF completeArg(ev).finalReport # NONE
                             THEN messages \cup {completeArg(ev).finalReport}
                             ELSE messages
            /\ mindMapData' = IF completeArg(ev).mindMapData # NONE
                                THEN completeArg(ev).mindMapData ELSE mindMapData
            /\ streamingJobId' = NULL
            /\ sseQueue' = Append(sseQueue, [kind |-> "reset", node |-> NONE])
            /\ pipelineNodes' = <<>>
            /\ sseHist' = EmptyFn
       ELSE UNCHANGED <<jobs, messages, mindMapData, streamingJobId, sseQueue, pipelineNodes,
                        sseHist>>
  /\ LET d == disconnect(received(conns, c), esRef, isConnected)
     IN conns' = d.conns /\ esRef' = d.ref /\ isConnected' = d.isConnected
  /\ lastOp' = [Op("complete", c.id, c.id # esRef,
                   <<"setStatus", "setProgress", "setIsComplete", "onComplete", "close">>)
                  EXCEPT !.job = rStreamingJobId, !.ev = ev, !.arg = completeArg(ev)]
  /\ UNCHANGED <<currentJobId, isMindMapOpen, mounted, remounts, rStreamingJobId, sseNodes, pollTimer,
                 pollDeps, pollInflight, simJobs, nodes, error, effDeps, lastEv, faulted>>

\* onmessage, case "error": the job fault
OnErrorEvent(c, ev) ==
  /\ canReceive(c) /\ ev \in ErrorEvents
  /\ error' = (IF ev.error = NONE THEN "An error occurred" ELSE ev.error)
  /\ status' = "failed"
  /\ streamingJobId' = (IF rStreamingJobId # NULL THEN NULL ELSE streamingJobId)
  /\ conns' = received(conns, c)
  /\ faulted' = faulted \cup {c.job}
  /\ lastOp' = [Op("error", c.id, c.id # esRef, <<"setError", "setStatus", "onError">>)
                  EXCEPT !.job = rStreamingJobId]
  /\ UNCHANGED <<storeVars, mounted, remounts, rStreamingJobId, sseNodes, sseQueue, pollTimer,
                 pollDeps, pollInflight, simJobs, isConnected, nodes, progress, isComplete,
                 esRef, effDeps, lastEv, sseHist>>

\* onmessage, case "end"
OnEnd(c) ==
  /\ canReceive(c)
  /\ LET d == disconnect(received(conns, c), esRef, isConnected)
     IN conns' = d.conns /\ esRef' = d.ref /\ isConnected' = d.isConnected
  /\ lastOp' = Op("end", c.id, c.id # esRef, <<"close">>)
  /\ UNCHANGED <<storeVars, chatVars, nodes, progress, status, error, isComplete, effDeps,
                 lastEv, sseHist, faulted>>

\* (faulty variant: a node_update is recorded without looking at node_id)
OnMalformed_noIdCheck(c, ev) ==
  /\ canReceive(c) /\ ev \in MalformedEvents
  /\ nodes' = (IF ev.type = "node_update" THEN setNode(nodes, nodeStateOf(ev)) ELSE nodes)
  /\ conns' = received(conns, c)
  /\ lastOp' = Op("malformed", c.id, c.id # esRef, <<>>)
  /\ UNCHANGED <<storeVars, chatVars, isConnected, progress, status, error, isComplete,
                 esRef, effDeps, lastEv, sseHist, faulted>>

\* onmessage with a payload that JSON.parse rejects (caught and logged), whose
\* type matches no case, or a node_update without node_id
OnMalformed(c, ev) ==
  /\ canReceive(c) /\ ev \in MalformedEvents
  /\ conns' = received(conns, c)
  /\ lastOp' = Op("malformed", c.id, c.id # esRef, <<>>)
  /\ UNCHANGED <<storeVars, chatVars, isConnected, nodes, progress, status, error, isComplete,
                 esRef, effDeps, lastEv, sseHist, faulted>>

\* eventSource.onerror: the transport fault (the browser retries on the same
\* EventSource)
OnTransportError(c) ==
  /\ isOpenConn(c)
  /\ isConnected' = FALSE
  /\ error' = (IF ~c.isc THEN "Connection lost. Reconnecting..." ELSE error)
  /\ lastOp' = Op("transport_error", c.id, c.id # esRef,
                  IF ~c.isc THEN <<"setIsConnected", "setError">> ELSE <<"setIsConnected">>)
  /\ UNCHANGED <<storeVars, chatVars, nodes, progress, status, isComplete, esRef, effDeps,
                 conns, lastEv, sseHist, faulted>>

\* a message that was in flight when its EventSource was closed: a closed
\* EventSource dispatches nothing, the message is dropped
DropStale(c) ==
  /\ c \in conns /\ ~c.open
  /\ conns' = conns \ {c}
  /\ lastOp' = Op("dropped", c.id, c.id # esRef, <<>>)
  /\ UNCHANGED <<storeVars, chatVars, isConnected, nodes, progress, status, error, isComplete,
                 esRef, effDeps, lastEv, sseHist, faulted>>


\* ----------------------------------------------------- ChatContainer steps
\* a step that is no handler of the stream
NoOp(name) == Op("other", NULL, FALSE, <<>>)

\* a status pull that reported workers, or a run of the simulator, for job j
JobOp(name, j) == [Op(name, NULL, FALSE, <<>>) EXCEPT !.job = j]

canStartJob ==
  /\ mounted /\ streamingJobId = NULL /\ rStreamingJobId = NULL
  /\ \E j \in JobIds : j \notin DOMAIN jobs

\* startResearchJob, chatApi.initiate answered {job_id, status}
StartJobBackend(st) ==
  /\ canStartJob /\ st \in {"pending", "running"}
  /\ jobs' = (freshJobId :> newJob(st, "pending")) @@ jobs
  /\ currentJobId' = freshJobId
  /\ streamingJobId' = freshJobId
  /\ sseQueue' = Append(sseQueue, [kind |-> "reset", node |-> NONE])
  /\ pipelineNodes' = <<>>
  /\ isMindMapOpen' = TRUE
  /\ sseHist' = EmptyFn
  /\ lastOp' = NoOp("start_backend")
  /\ UNCHANGED <<messages, mindMapData, mounted, remounts, rStreamingJobId, sseNodes, pollTimer,
                 pollDeps, pollInflight, simJobs, hookVars, lastEv, faulted>>

\* startResearchJob, chatApi.initiate failed: mock mode, no stream
StartJobMock ==
  /\ canStartJob
  /\ jobs' = (freshJobId :> newJob("running", "running")) @@ jobs
  /\ currentJobId' = freshJobId
  /\ lastOp' = NoOp("start_mock")
  /\ UNCHANGED <<messages, pipelineNodes, mindMapData, isMindMapOpen, chatVars, hookVars,
                 lastEv, sseHist, faulted>>

streamDepsChanged ==
  <<streamingJobId, isComplete>> # <<effDeps.jobId, effDeps.isComplete>>

pollDepsNow == <<currentJobId, currentJobStatus(jobs, currentJobId)>>

renderNeeded ==
  \/ sseQueue # <<>>
  \/ rStreamingJobId # streamingJobId
  \/ streamDepsChanged
  \/ pollDepsNow # pollDeps

\* a render of ChatContainer and the effects it schedules
Render ==
  /\ mounted /\ renderNeeded
  /\ LET d == drainQueue(sseQueue, sseNodes, pipelineNodes)
     IN sseNodes' = d.sse /\ pipelineNodes' = d.pipe
  /\ sseQueue' = <<>>
  /\ rStreamingJobId' = streamingJobId
  /\ IF streamDepsChanged
       THEN LET e == streamEffect(conns, esRef, isConnected, streamingJobId, isComplete,
                                  effDeps.cleanup)
            IN /\ conns' = e.conns /\ esRef' = e.ref /\ isConnected' = e.isConnected
               /\ effDeps' = [jobId |-> streamingJobId, isComplete |-> isComplete,
                              cleanup |-> e.cleanup]
       ELSE UNCHANGED <<conns, esRef, isConnected, effDeps>>
  /\ IF pollDepsNow # pollDeps
       THEN pollTimer' = pollEffect(pollDepsNow[1], pollDepsNow[2]) /\ pollDeps' = pollDepsNow
       ELSE UNCHANGED <<pollTimer, pollDeps>>
  /\ lastOp' = NoOp("render")
  /\ UNCHANGED <<jobs, currentJobId, messages, mindMapData, isMindMapOpen, mounted, remounts,
                 streamingJobId, pollInflight, simJobs, nodes, progress, status, error,
                 isComplete, lastEv, sseHist, faulted>>

\* the interval fires: pollJobStatus(jobId) issues jobsApi.getStatus
PollTick ==
  /\ mounted /\ pollTimer # NULL
  /\ pollInflight[pollTimer] < MaxInflight
  /\ pollInflight' = [pollInflight EXCEPT ![pollTimer] = @ + 1]
  /\ lastOp' = NoOp("poll_tick")
  /\ UNCHANGED <<storeVars, mounted, remounts, streamingJobId, rStreamingJobId, sseNodes, sseQueue,
                 pollTimer, pollDeps, simJobs, hookVars, lastEv, sseHist, faulted>>

\* the interval fires while an earlier status pull still awaits its answer
PollTickOverlap ==
  /\ mounted /\ pollTimer # NULL
  /\ pollInflight[pollTimer] >= MaxInflight /\ pollInflight[pollTimer] < MaxOverlap
  /\ pollInflight' = [pollInflight EXCEPT ![pollTimer] = @ + 1]
  /\ lastOp' = NoOp("poll_tick")
  /\ UNCHANGED <<storeVars, mounted, remounts, streamingJobId, rStreamingJobId, sseNodes, sseQueue,
                 pollTimer, pollDeps, simJobs, hookVars, lastEv, sseHist, faulted>>

\* answers of the status endpoint: {status, progress, workers?, result?.summary}
respWorkers(st1, p1, st, p) ==
  [i \in 1..Len(WorkerNames) |->
     [name |-> WorkerNames[i], status |-> IF i = 1 THEN st1 ELSE st,
      progress |-> IF i = 1 THEN p1 ELSE p]]

PollResponses ==
  { [status |-> "running", progress |-> 40, hasWorkers |-> TRUE,
     workers |-> respWorkers("completed", 100, "running", 85), summary |-> NONE],
    [status |-> "running", progress |-> 90, hasWorkers |-> TRUE,
     workers |-> respWorkers("completed", 100, "completed", 100), summary |-> NONE],
    [status |-> "completed", progress |-> 100, hasWorkers |-> TRUE,
     workers |-> respWorkers("completed", 100, "completed", 100), summary |-> "summary"],
    [status |-> "completed", progress |-> 100, hasWorkers |-> FALSE, workers |-> <<>>,
     summary |-> NONE],
    [status |-> "failed", progress |-> 30, hasWorkers |-> FALSE, workers |-> <<>>,
     summary |-> NONE] }

RECURSIVE applyWorkers(_, _, _)
applyWorkers(js, jobId, ws) ==
  IF ws = <<>> THEN js
  ELSE applyWorkers(updateWorkerStatus(js, jobId, Head(ws).name, Head(ws).status,
                                       Head(ws).progress),
                    jobId, Tail(ws))

\* the store after the synchronous part of pollJobStatus that follows the answer
pollStore(js, jobId, r) ==
  LET js1 == updateJob(js, jobId, [status |-> r.status, progress |-> r.progress])
  IN IF r.hasWorkers
       THEN updateJob(applyWorkers(js1, jobId, r.workers), jobId,
                      [status |-> NONE, progress |-> MeanProgress(r.workers)])
       ELSE js1

isTerminal(st) == st = "completed" \/ st = "failed"

\* pollJobStatus continues after a successful getStatus
PollSuccess(j, r) ==
  /\ j \in JobIds /\ pollInflight[j] > 0 /\ r \in PollResponses
  /\ pollInflight' = [pollInflight EXCEPT ![j] = @ - 1]
  /\ jobs' = pollStore(jobs, j, r)
  /\ pollTimer' = (IF isTerminal(r.status) THEN NULL ELSE pollTimer)
  /\ messages' =
       IF isTerminal(r.status) /\ (r.summary # NONE \/ r.status = "failed")
         THEN messages \cup
                {IF r.status = "completed" /\ r.summary # NONE THEN r.summary
                 ELSE "The analysis encountered an error. Please try again."}
         ELSE messages
  /\ lastOp' = [JobOp(IF r.hasWorkers THEN "poll_workers" ELSE "poll_status", j)
                  EXCEPT !.respStatus = r.status, !.respSummary = r.summary]
  /\ UNCHANGED <<currentJobId, pipelineNodes, mindMapData, isMindMapOpen, mounted, remounts,
                 streamingJobId, rStreamingJobId, sseNodes, sseQueue, pollDeps, simJobs,
                 hookVars, lastEv, sseHist, faulted>>


\* Math.random() * 15 + 5, in half units: 5.0 and 19.5
Increments2 == {10, 39}

min(a, b) == IF a < b THEN a ELSE b

\* the workers of the store after the forEach of simulateProgress over the
\* workers it closed over: worker.progress + increment, clamped and rounded
RECURSIVE simWorkers(_, _, _, _, _)
simWorkers(js, jobId, stale, incs, i) ==
  IF i > Len(stale) THEN js
  ELSE IF stale[i].progress < FullProgress
    THEN LET newProgress2 == min(2 * FullProgress, 2 * stale[i].progress + incs[i])
         IN simWorkers(updateWorkerStatus(js, jobId, stale[i].name,
                                          IF newProgress2 >= 2 * FullProgress
                                            THEN "completed" ELSE "running",
                                          (newProgress2 + 1) \div 2),
                       jobId, stale, incs, i + 1)
    ELSE simWorkers(js, jobId, stale, incs, i + 1)

simAllComplete(stale) == \A i \in 1..Len(stale) : ~(stale[i].progress < FullProgress)

simRuns(sj, jobId) == jobId \in DOMAIN sj /\ sj[jobId].status # "completed"

\* simulateProgress(jobId) as pollJobStatus calls it: `jobs` is the list the
\* component saw when pollJobStatus was created, also for updatedJob
simulateProgress(js, sj, jobId, incs) ==
  IF ~simRuns(sj, jobId) THEN js
  ELSE LET js1 == simWorkers(js, jobId, sj[jobId].workers, incs, 1)
           js2 == updateJob(js1, jobId,
                            [status |-> NONE, progress |-> MeanProgress(sj[jobId].workers)])
       IN IF simAllComplete(sj[jobId].workers)
            THEN updateJob(js2, jobId, [status |-> "completed", progress |-> ABSENT])
            ELSE js2

\* pollJobStatus, getStatus failed: the catch branch runs the simulator
PollFailure(j, incs) ==
  /\ j \in JobIds /\ pollInflight[j] > 0
  /\ incs \in [1..Len(WorkerNames) -> Increments2]
  /\ pollInflight' = [pollInflight EXCEPT ![j] = @ - 1]
  /\ jobs' = simulateProgress(jobs, simJobs, j, incs)
  /\ pollTimer' = (IF simRuns(simJobs, j) /\ simAllComplete(simJobs[j].workers)
                     THEN NULL ELSE pollTimer)
  /\ lastOp' = (IF simRuns(simJobs, j) THEN JobOp("sim_tick", j) ELSE NoOp("sim_skip"))
  /\ UNCHANGED <<currentJobId, messages, pipelineNodes, mindMapData, isMindMapOpen, mounted,
                 remounts, streamingJobId, rStreamingJobId, sseNodes, sseQueue, pollDeps, simJobs,
                 hookVars, lastEv, sseHist, faulted>>

\* the chat page is left: the effects' cleanups run, the instance's state is gone.
\* (Status pulls still awaiting their answer are let finish first.)
Unmount ==
  /\ mounted /\ remounts < MaxRemounts
  /\ remounts' = remounts + 1
  /\ \A j \in JobIds : pollInflight[j] = 0
  /\ mounted' = FALSE
  /\ LET d == IF effDeps.cleanup THEN disconnect(conns, esRef, isConnected)
              ELSE [conns |-> conns, ref |-> esRef, isConnected |-> isConnected]
     IN conns' = d.conns
  /\ pollTimer' = NULL
  /\ streamingJobId' = NULL /\ rStreamingJobId' = NULL /\ sseNodes' = <<>> /\ sseQueue' = <<>>
  /\ pollDeps' = <<NULL, "undefined">> /\ simJobs' = EmptyFn
  /\ isConnected' = FALSE /\ nodes' = EmptyFn /\ progress' = 0 /\ status' = "pending"
  /\ error' = NONE /\ isComplete' = FALSE /\ esRef' = NULL
  /\ effDeps' = [jobId |-> NULL, isComplete |-> FALSE, cleanup |-> FALSE]
  /\ lastOp' = NoOp("unmount")
  /\ lastEv' = EmptyFn /\ sseHist' = EmptyFn
  /\ UNCHANGED <<storeVars, pollInflight, faulted>>

\* the chat page is entered again: a new instance, its first render and effects
Mount ==
  /\ ~mounted
  /\ mounted' = TRUE
  /\ simJobs' = jobs
  /\ pollDeps' = pollDepsNow
  /\ pollTimer' = pollEffect(pollDepsNow[1], pollDepsNow[2])
  /\ lastOp' = NoOp("mount")
  /\ UNCHANGED <<storeVars, remounts, streamingJobId, rStreamingJobId, sseNodes, sseQueue,
                 pollInflight, hookVars, lastEv, sseHist, faulted>>

\* the jobs created in this session
created == DOMAIN jobs \ {MockJob}

\* the whole program, for up to MaxPolledJobs jobs
Next ==
  \/ Cardinality(created) < MaxPolledJobs /\ \E st \in {"pending", "running"} : StartJobBackend(st) /\ UNCHANGED <<graphVars, canvasVars, mobileVars, pollHookVars>>
  \/ Cardinality(created) < MaxPolledJobs /\ StartJobMock /\ UNCHANGED <<graphVars, canvasVars, mobileVars, pollHookVars>>
  \/ Render /\ UNCHANGED <<graphVars, canvasVars, mobileVars, pollHookVars>>
  \/ \E c \in conns : OnOpen(c) /\ UNCHANGED <<graphVars, canvasVars, mobileVars, pollHookVars>>
  \/ \E c \in conns, ev \in ProgressEvents : OnProgress(c, ev) /\ UNCHANGED <<graphVars, canvasVars, mobileVars, pollHookVars>>
  \/ \E c \in conns, ev \in NodeEvents : OnNodeUpdate(c, ev) /\ UNCHANGED <<graphVars, canvasVars, mobileVars, pollHookVars>>
  \/ \E c \in conns, ev \in CompleteEvents : OnComplete(c, ev) /\ UNCHANGED <<graphVars, canvasVars, mobileVars, pollHookVars>>
  \/ \E c \in conns, ev \in ErrorEvents : OnErrorEvent(c, ev) /\ UNCHANGED <<graphVars, canvasVars, mobileVars, pollHookVars>>
  \/ \E c \in conns : OnEnd(c) /\ UNCHANGED <<graphVars, canvasVars, mobileVars, pollHookVars>>
  \/ \E c \in conns, ev \in MalformedEvents : OnMalformed(c, ev) /\ UNCHANGED <<graphVars, canvasVars, mobileVars, pollHookVars>>
  \/ \E c \in conns : OnTransportError(c) /\ UNCHANGED <<graphVars, canvasVars, mobileVars, pollHookVars>>
  \/ \E c \in conns : DropStale(c) /\ UNCHANGED <<graphVars, canvasVars, mobileVars, pollHookVars>>
  \/ PollTick /\ UNCHANGED <<graphVars, canvasVars, mobileVars, pollHookVars>>
  \/ \E j \in JobIds, r \in PollResponses : PollSuccess(j, r) /\ UNCHANGED <<graphVars, canvasVars, mobileVars, pollHookVars>>
  \/ \E j \in JobIds, incs \in [1..Len(WorkerNames) -> Increments2] : PollFailure(j, incs) /\ UNCHANGED <<graphVars, canvasVars, mobileVars, pollHookVars>>
  \/ Unmount /\ UNCHANGED <<graphVars, canvasVars, mobileVars, pollHookVars>>
  \/ Mount /\ UNCHANGED <<graphVars, canvasVars, mobileVars, pollHookVars>>

Spec == Init /\ [][Next]_vars

\* the streaming path alone (no status pull answers, the page is not left),
\* for up to MaxJobs jobs
NextStream ==
  \/ \E st \in {"pending", "running"} : StartJobBackend(st) /\ UNCHANGED <<graphVars, canvasVars, mobileVars, pollHookVars>>
  \/ Render /\ UNCHANGED <<graphVars, canvasVars, mobileVars, pollHookVars>>
  \/ \E c \in conns : OnOpen(c) /\ UNCHANGED <<graphVars, canvasVars, mobileVars, pollHookVars>>
  \/ \E c \in conns, ev \in ProgressEvents : OnProgress(c, ev) /\ UNCHANGED <<graphVars, canvasVars, mobileVars, pollHookVars>>
  \/ \E c \in conns, ev \in NodeEvents : OnNodeUpdate(c, ev) /\ UNCHANGED <<graphVars, canvasVars, mobileVars, pollHookVars>>
  \/ \E c \in conns, ev \in CompleteEvents : OnComplete(c, ev) /\ UNCHANGED <<graphVars, canvasVars, mobileVars, pollHookVars>>
  \/ \E c \in conns, ev \in ErrorEvents : OnErrorEvent(c, ev) /\ UNCHANGED <<graphVars, canvasVars, mobileVars, pollHookVars>>
  \/ \E c \in conns : OnEnd(c) /\ UNCHANGED <<graphVars, canvasVars, mobileVars, pollHookVars>>
  \/ \E c \in conns, ev \in MalformedEvents : OnMalformed(c, ev) /\ UNCHANGED <<graphVars, canvasVars, mobileVars, pollHookVars>>
  \/ \E c \in conns : OnTransportError(c) /\ UNCHANGED <<graphVars, canvasVars, mobileVars, pollHookVars>>
  \/ \E c \in conns : DropStale(c) /\ UNCHANGED <<graphVars, canvasVars, mobileVars, pollHookVars>>

SpecStream == Init /\ [][NextStream]_vars

\* the polling path alone (the stream stays silent), with up to MaxOverlap
\* status pulls awaiting their answer, for up to MaxPolledJobs jobs
NextPoll ==
  \/ Cardinality(created) < MaxPolledJobs /\ \E st \in {"pending", "running"} : StartJobBackend(st) /\ UNCHANGED <<graphVars, canvasVars, mobileVars, pollHookVars>>
  \/ Cardinality(created) < MaxPolledJobs /\ StartJobMock /\ UNCHANGED <<graphVars, canvasVars, mobileVars, pollHookVars>>
  \/ Render /\ UNCHANGED <<graphVars, canvasVars, mobileVars, pollHookVars>>
  \/ PollTick /\ UNCHANGED <<graphVars, canvasVars, mobileVars, pollHookVars>>
  \/ PollTickOverlap /\ UNCHANGED <<graphVars, canvasVars, mobileVars, pollHookVars>>
  \/ \E j \in JobIds, r \in PollResponses : PollSuccess(j, r) /\ UNCHANGED <<graphVars, canvasVars, mobileVars, pollHookVars>>
  \/ \E j \in JobIds, incs \in [1..Len(WorkerNames) -> Increments2] : PollFailure(j, incs) /\ UNCHANGED <<graphVars, canvasVars, mobileVars, pollHookVars>>
  \/ Unmount /\ UNCHANGED <<graphVars, canvasVars, mobileVars, pollHookVars>>
  \/ Mount /\ UNCHANGED <<graphVars, canvasVars, mobileVars, pollHookVars>>

SpecPoll == Init /\ [][NextPoll]_vars

\* ----------------------------------------------- the mind map components
progVars == <<storeVars, chatVars, hookVars, obsVars, mobileVars, pollHookVars>>

\* MindMapView.handleNodeExpand(nodeId), called through onExpand of a shown node
MindMapView_handleNodeExpand(nodeId) ==
  /\ nodeId \in {n.id : n \in mmNodes}
  /\ expandedState' = nextExpandedState(mmData.nodes, expandedState, nodeId)
  /\ LET v == getVisibleNodesAndEdges(mmData.nodes, mmData.edges, expandedState')
     IN mmNodes' = v.nodes /\ mmEdges' = v.edges
  /\ mmOp' = nextStep("toggle", nodeId, mmOp, mmNodes, mmEdges)
  /\ UNCHANGED <<mmData, canvasVars, progVars>>

\* the data prop changes (a job delivered new mind-map data): the refs are
\* updated and the data-change effect runs
MindMapView_dataEffect(d) ==
  /\ mmData # NoData /\ d \in Graphs
  /\ mmData' = d
  /\ expandedState' = resetExpandedState(expandedState)
  /\ LET v == getVisibleNodesAndEdges(d.nodes, d.edges, expandedState')
     IN mmNodes' = v.nodes /\ mmEdges' = v.edges
  /\ mmOp' = nextStep("replace", NONE, mmOp, mmNodes, mmEdges)
  /\ UNCHANGED <<canvasVars, progVars>>

\* MindMapCanvas.handleNodeExpand(nodeId), called through onExpand of a shown node
MindMapCanvas_handleNodeExpand(nodeId) ==
  /\ nodeId \in shownIds(cvNodes)
  /\ LET t == toggleNode(cvNodes, cvEdges, nodeId)
     IN cvNodes' = t.nodes /\ cvEdges' = t.edges
  /\ cvOp' = nextStep("toggle", nodeId, cvOp, cvNodes, cvEdges)
  /\ UNCHANGED <<graphVars, progVars>>

\* MindMapView mounted with a mind map (initial load)
mindMapInit ==
  /\ mmData \in Graphs /\ expandedState = EmptyFn
  /\ mmNodes = getVisibleNodesAndEdges(mmData.nodes, mmData.edges, EmptyFn).nodes
  /\ mmEdges = getVisibleNodesAndEdges(mmData.nodes, mmData.edges, EmptyFn).edges
  /\ mmOp = firstStep("load", mmNodes, mmEdges)

\* the chat page with a mind map in its sidebar, or the mind-map page
InitGraph ==
  /\ chatInit /\ hooksIdle
  /\ \/ mindMapInit /\ canvasIdle
     \/ mindMapIdle /\ canvasInit

NextGraph ==
  \/ \E n \in nodeIds(mmData.nodes) : MindMapView_handleNodeExpand(n)
  \/ \E d \in Graphs : MindMapView_dataEffect(d)
  \/ \E n \in nodeIds(hierarchicalMindMapData.nodes) : MindMapCanvas_handleNodeExpand(n)

SpecGraph == InitGraph /\ [][NextGraph]_vars

\* ------------------------------------------------- the mobile hook useJob
chatIdleVars == <<storeVars, chatVars, hookVars, obsVars, graphVars, canvasVars>>

freshTimerId(ts) == CHOOSE n \in 1..(Cardinality(ts) + 1) : \A t \in ts : t.id # n

\* clearInterval(intervalRef.current), when the ref holds a timer
clearRef(ts, ref) == {t \in ts : t.id # ref}

ujRenderNeeded ==
  ujRender.dirty \/ <<ujJobId, ujIsPolling>> # <<ujRender.jobId, ujRender.isPolling>>

\* fetchStatus() of the render whose jobId is `asked`: nothing without a jobId,
\* else a getJobStatus call
fetchStatus(inflight, asked) ==
  IF asked = NULL THEN inflight ELSE [inflight EXCEPT ![asked] = @ + 1]

canFetch(asked) == IF asked = NULL THEN TRUE ELSE ujInflight[asked] < MaxHookPulls

\* startPolling(newJobId), as returned by the last render
UJ_startPolling(newJobId) ==
  /\ newJobId \in HookJobIds /\ canFetch(ujRender.jobId)
  /\ ujJobId' = newJobId /\ ujIsPolling' = TRUE /\ ujError' = NONE
  /\ ujInflight' = fetchStatus(ujInflight, ujRender.jobId)
  /\ LET live == clearRef(ujTimers, ujRef)
     IN /\ ujTimers' = live \cup {[id |-> freshTimerId(live), job |-> ujRender.jobId]}
        /\ ujRef' = freshTimerId(live)
  /\ ujRender' = [ujRender EXCEPT !.dirty = @ \/ ujError # NONE]
  /\ ujStarted' = newJobId
  /\ ujOp' = [op |-> "start", asked |-> ujRender.jobId]
  /\ UNCHANGED <<ujJobStatus, ujStable, chatIdleVars, pollHookVars>>

\* a render of the caller and the jobId effect: it runs when jobId, isPolling
\* or fetchStatus (jobId, onComplete, onError) changed
UJ_Render ==
  /\ ujRenderNeeded
  /\ LET runs == \/ <<ujJobId, ujIsPolling>> # <<ujRender.jobId, ujRender.isPolling>>
                  \/ ~ujStable
         asked == IF runs /\ ujJobId # NULL /\ ujIsPolling THEN ujJobId ELSE NULL
     IN /\ canFetch(asked)
        /\ ujInflight' = fetchStatus(ujInflight, asked)
        /\ ujOp' = [op |-> "render", asked |-> asked]
  /\ ujRender' = [jobId |-> ujJobId, isPolling |-> ujIsPolling, dirty |-> FALSE]
  /\ UNCHANGED <<ujJobId, ujIsPolling, ujJobStatus, ujError, ujTimers, ujRef, ujStable,
                 ujStarted, chatIdleVars, pollHookVars>>

\* the interval t fires: the fetchStatus handed to setInterval
UJ_Tick(t) ==
  /\ t \in ujTimers /\ canFetch(t.job)
  /\ ujInflight' = fetchStatus(ujInflight, t.job)
  /\ ujOp' = [op |-> "tick", asked |-> t.job]
  /\ UNCHANGED <<ujJobId, ujIsPolling, ujJobStatus, ujError, ujRender, ujTimers, ujRef,
                 ujStable, ujStarted, chatIdleVars, pollHookVars>>

\* getJobStatus(j) answered with status st
UJ_Response(j, st) ==
  /\ j \in HookJobIds /\ ujInflight[j] > 0 /\ st \in {"running", "completed", "failed"}
  /\ ujInflight' = [ujInflight EXCEPT ![j] = @ - 1]
  /\ ujJobStatus' = [job |-> j, status |-> st]
  /\ ujError' = NONE
  /\ IF isTerminal(st)
       THEN /\ ujIsPolling' = FALSE
            /\ ujTimers' = clearRef(ujTimers, ujRef)
            /\ ujRef' = NULL
       ELSE UNCHANGED <<ujIsPolling, ujTimers, ujRef>>
  /\ ujRender' = [ujRender EXCEPT !.dirty = TRUE]
  /\ ujOp' = [op |-> "answer", asked |-> NULL]
  /\ UNCHANGED <<ujJobId, ujStable, ujStarted, chatIdleVars, pollHookVars>>

\* getJobStatus(j) failed: the catch branch
UJ_Failure(j) ==
  /\ j \in HookJobIds /\ ujInflight[j] > 0
  /\ ujInflight' = [ujInflight EXCEPT ![j] = @ - 1]
  /\ ujError' = "Failed to fetch job status"
  /\ ujRender' = [ujRender EXCEPT !.dirty = @ \/ ujError # ujError']
  /\ ujOp' = [op |-> "failure", asked |-> NULL]
  /\ UNCHANGED <<ujJobId, ujIsPolling, ujJobStatus, ujTimers, ujRef, ujStable, ujStarted,
                 chatIdleVars, pollHookVars>>

\* stopPolling()
UJ_stopPolling ==
  /\ ujIsPolling' = FALSE
  /\ ujTimers' = clearRef(ujTimers, ujRef)
  /\ ujRef' = NULL
  /\ ujOp' = [op |-> "stop", asked |-> NULL]
  /\ UNCHANGED <<ujJobId, ujJobStatus, ujError, ujRender, ujInflight, ujStable, ujStarted,
                 chatIdleVars, pollHookVars>>

InitMobile ==
  /\ chatInit /\ mindMapIdle /\ canvasIdle /\ useJobPollingInit
  /\ \E stable \in BOOLEAN : useJobInit(stable)

NextMobile ==
  \/ \E id \in HookJobIds : UJ_startPolling(id)
  \/ UJ_Render
  \/ \E t \in ujTimers : UJ_Tick(t)
  \/ \E j \in HookJobIds, st \in {"running", "completed", "failed"} : UJ_Response(j, st)
  \/ \E j \in HookJobIds : UJ_Failure(j)
  \/ UJ_stopPolling

SpecMobile == InitMobile /\ [][NextMobile]_vars

\* --------------------------------------------- the web hook useJobPolling
\* the caller renders with another jobId: the cleanup of the effect's last run,
\* then its body (poll() at once and an interval, unless the jobId is null)
JP_effect(jobId) ==
  /\ jobId \in HookJobIds \cup {NULL} /\ jobId # jpJobId
  /\ IF jobId = NULL THEN TRUE ELSE jpInflight[jobId] < MaxHookPulls
  /\ jpJobId' = jobId
  /\ jpIsPolling' = (jobId # NULL)
  /\ jpTimers' = (jpTimers \ {jpJobId}) \cup (IF jobId = NULL THEN {} ELSE {jobId})
  /\ jpInflight' = IF jobId = NULL THEN jpInflight ELSE [jpInflight EXCEPT ![jobId] = @ + 1]
  /\ jpReported' = FALSE
  /\ jpOp' = [op |-> "effect", asked |-> jobId]
  /\ UNCHANGED <<chatIdleVars, mobileVars>>

\* the interval of job j fires: poll()
JP_Tick(j) ==
  /\ j \in jpTimers /\ jpInflight[j] < MaxHookPulls
  /\ jpInflight' = [jpInflight EXCEPT ![j] = @ + 1]
  /\ jpOp' = [op |-> "tick", asked |-> j]
  /\ UNCHANGED <<jpJobId, jpIsPolling, jpTimers, jpReported, chatIdleVars, mobileVars>>

\* the fetch of poll() for job j answered with status st
JP_Response(j, st) ==
  /\ j \in HookJobIds /\ jpInflight[j] > 0 /\ st \in {"running", "completed", "failed"}
  /\ jpInflight' = [jpInflight EXCEPT ![j] = @ - 1]
  /\ jpIsPolling' = (IF isTerminal(st) THEN FALSE ELSE jpIsPolling)
  /\ jpReported' = (jpReported \/ (isTerminal(st) /\ j = jpJobId))
  /\ jpOp' = [op |-> "answer", asked |-> NULL]
  /\ UNCHANGED <<jpJobId, jpTimers, chatIdleVars, mobileVars>>

\* the fetch of poll() for job j failed: the catch branch only logs
JP_Failure(j) ==
  /\ j \in HookJobIds /\ jpInflight[j] > 0
  /\ jpInflight' = [jpInflight EXCEPT ![j] = @ - 1]
  /\ jpOp' = [op |-> "failure", asked |-> NULL]
  /\ UNCHANGED <<jpJobId, jpIsPolling, jpTimers, jpReported, chatIdleVars, mobileVars>>

NextJobPolling ==
  \/ \E id \in HookJobIds \cup {NULL} : JP_effect(id)
  \/ \E j \in HookJobIds : JP_Tick(j)
  \/ \E j \in HookJobIds, st \in {"running", "completed", "failed"} : JP_Response(j, st)
  \/ \E j \in HookJobIds : JP_Failure(j)

SpecJobPolling == Init /\ [][NextJobPolling]_vars

\* ------------------- useJobStream under a caller that passes no callbacks
\* (options = {}) and keeps the job id until it chooses another one
idleVars == <<graphVars, canvasVars, mobileVars, pollHookVars>>

\* the caller renders with another jobId
HK_setJobId(jobId) ==
  /\ jobId \in JobIds \cup {NULL} /\ jobId # streamingJobId
  /\ Cardinality(conns) < MaxHookConns
  /\ streamingJobId' = jobId
  /\ lastOp' = NoOp("set_job_id")
  /\ UNCHANGED <<storeVars, mounted, remounts, rStreamingJobId, sseNodes, sseQueue, pollTimer,
                 pollDeps, pollInflight, simJobs, hookVars, lastEv, sseHist, faulted, idleVars>>

\* the effect of useJobStream after a render in which jobId or isComplete changed
HK_effect ==
  /\ streamDepsChanged
  /\ LET e == streamEffect(conns, esRef, isConnected, streamingJobId, isComplete,
                           effDeps.cleanup)
     IN /\ conns' = e.conns /\ esRef' = e.ref /\ isConnected' = e.isConnected
        /\ effDeps' = [jobId |-> streamingJobId, isComplete |-> isComplete,
                       cleanup |-> e.cleanup]
  /\ lastOp' = NoOp("effect")
  /\ UNCHANGED <<storeVars, chatVars, nodes, progress, status, error, isComplete, lastEv,
                 sseHist, faulted, idleVars>>

\* onmessage, case "complete", with no onComplete to call
HK_OnComplete(c, ev) ==
  /\ canReceive(c) /\ ev \in CompleteEvents
  /\ status' = "completed" /\ progress' = FullProgress /\ isComplete' = TRUE
  /\ LET d == disconnect(received(conns, c), esRef, isConnected)
     IN conns' = d.conns /\ esRef' = d.ref /\ isConnected' = d.isConnected
  /\ lastOp' = [Op("complete", c.id, c.id # esRef,
                   <<"setStatus", "setProgress", "setIsComplete", "close">>)
                  EXCEPT !.ev = ev, !.arg = completeArg(ev)]
  /\ UNCHANGED <<storeVars, chatVars, nodes, error, effDeps, lastEv, sseHist, faulted, idleVars>>

NextHook ==
  \/ \E j \in JobIds \cup {NULL} : HK_setJobId(j)
  \/ HK_effect
  \/ \E c \in conns : OnOpen(c) /\ UNCHANGED idleVars
  \/ \E c \in conns, ev \in ProgressEvents : OnProgress(c, ev) /\ UNCHANGED idleVars
  \/ \E c \in conns, ev \in CompleteEvents : HK_OnComplete(c, ev)
  \/ \E c \in conns : OnEnd(c) /\ UNCHANGED idleVars
  \/ \E c \in conns : OnTransportError(c) /\ UNCHANGED idleVars
  \/ \E c \in conns : DropStale(c) /\ UNCHANGED idleVars

SpecHook == Init /\ [][NextHook]_vars


\* ================================================================== claims
openConns(cs) == {c \in cs : c.open}

ReconnectMsg == "Connection lost. Reconnecting..."

\* C1: once isComplete is true, no step (an event of the same or of a later
\* job's stream, or a transport error) changes status, progress or the node map.
C1_TerminalFrozen ==
  [][isComplete => (status' = status /\ progress' = progress /\ nodes' = nodes)]_vars

\* the value a node_update event gives each field of the recorded entry
evStatus(ev) == IF ev.status = NONE THEN "pending" ELSE ev.status
evProgress(ev) == IF ev.progress = ABSENT THEN 0 ELSE ev.progress

matchesEvent(entry, ev) ==
  /\ entry.nodeId = ev.node_id
  /\ entry.status = evStatus(ev)
  /\ entry.progress = evProgress(ev)
  /\ entry.thought = ev.thought

\* the list holds exactly one entry per node id of hist, that of its last event
listMatches(list, hist) ==
  /\ {list[i].nodeId : i \in 1..Len(list)} = DOMAIN hist
  /\ \A i, k \in 1..Len(list) : list[i].nodeId = list[k].nodeId => i = k
  /\ \A i \in 1..Len(list) : matchesEvent(list[i], hist[list[i].nodeId].ev)

\* C2: for every node id the node map holds the status, progress and thought
\* of the last node_update delivered for it; once the queued updates are
\* applied, sseNodes (and the sidebar's pipelineNodes, set along with it) holds
\* exactly one entry per id, that of the last event for the id
C2_LastWriteWins ==
  /\ DOMAIN nodes = DOMAIN lastEv
  /\ \A id \in DOMAIN lastEv : matchesEvent(nodes[id], lastEv[id].ev)
  /\ sseQueue = <<>> => listMatches(sseNodes, sseHist)
  /\ (sseQueue = <<>> /\ sseHist # EmptyFn) => listMatches(pipelineNodes, sseHist)

\* C2 witness: two ids are listed, n1 with the values of its later event
C2_Witness ==
  /\ sseQueue = <<>> /\ Len(sseNodes) = 2 /\ pipelineNodes = sseNodes
  /\ \E i \in 1..2 : sseNodes[i].nodeId = "n1" /\ sseNodes[i].status = "completed"
  /\ "n1" \in DOMAIN nodes /\ nodes["n1"].progress = 100

\* C3: after a status pull that reported workers and after a simulator tick,
\* the job's progress in the job store is round(mean) of its stored stages
C3_ProgressIsMean ==
  lastOp.op \in {"poll_workers", "sim_tick"} =>
    jobs[lastOp.job].progress = MeanProgress(jobs[lastOp.job].workers)

indexOf(seq, x) == CHOOSE i \in 1..Len(seq) : seq[i] = x

\* C4: a complete event leaves status completed, progress 100 and isComplete
\* true, calls onComplete exactly once, with the event's mind_map_data and
\* final_report, and closes the connection only after that call
C4_Complete ==
  lastOp.op = "complete" =>
    /\ status = "completed" /\ progress = 100 /\ isComplete
    /\ Cardinality({i \in 1..Len(lastOp.fx) : lastOp.fx[i] = "onComplete"}) = 1
    /\ Cardinality({i \in 1..Len(lastOp.fx) : lastOp.fx[i] = "close"}) = 1
    /\ indexOf(lastOp.fx, "onComplete") < indexOf(lastOp.fx, "close")
    /\ lastOp.arg.mindMapData = lastOp.ev.mind_map_data
    /\ lastOp.arg.finalReport = lastOp.ev.final_report
    /\ (lastOp.job # NULL /\ lastOp.ev.final_report # NONE) => lastOp.ev.final_report \in messages
    /\ (lastOp.job # NULL /\ lastOp.ev.mind_map_data # NONE) => mindMapData = lastOp.ev.mind_map_data
    /\ \A c \in conns : c.id = lastOp.conn => ~c.open
    /\ esRef = NULL

\* C4 witness: a complete event with report and graph was handled
C4_Witness ==
  /\ lastOp.op = "complete" /\ lastOp.ev.final_report = "report"
  /\ mindMapData = "graph" /\ "report" \in messages /\ openConns(conns) = {}

\* C5: at most one EventSource is open, it is the one the hook references and
\* it belongs to the job id of the last effect run; with job id null none is
\* open; and from every state a change of the job id to any value (another id
\* or null) closes the open connection before one for the new id is opened
C5_OneConnection ==
  /\ Cardinality(openConns(conns)) <= 1
  /\ \A c \in openConns(conns) : c.id = esRef /\ c.job = effDeps.jobId
  /\ effDeps.jobId = NULL => openConns(conns) = {}
  /\ \A j \in JobIds \cup {NULL} :
       LET e == streamEffect(conns, esRef, isConnected, j, isComplete, effDeps.cleanup)
       IN /\ Cardinality(openConns(e.conns)) <= 1
          /\ \A c \in openConns(e.conns) : c.job = j /\ c.id = e.ref
          /\ j = NULL => openConns(e.conns) = {}

\* C5 witness: the job id went from 1 over null to 2; only job 2's connection is open
C5_Witness ==
  /\ \E c \in conns : c.open /\ c.job = 2
  /\ \E c \in conns : ~c.open /\ c.job = 1


\* what a message of the stream can change in the hook, the component and the stores
streamState ==
  <<isConnected, nodes, progress, status, error, isComplete, storeVars, streamingJobId,
    sseNodes, sseQueue, pollTimer>>

\* C6: a message of a connection the hook has let go of (job id replaced or
\* null) changes no state of the stream client or its caller and calls nothing
C6_StaleIgnored ==
  [][lastOp'.stale => (UNCHANGED streamState /\ lastOp'.fx = <<>>)]_vars

\* C6 witness: a message arrived for the closed connection of job 1 while job 2 streams
C6_Witness ==
  /\ lastOp.op = "dropped" /\ lastOp.stale
  /\ effDeps.jobId = 2 /\ lastOp.conn # esRef

connOf(id) == CHOOSE c \in conns : c.id = id

\* C7: a transport error on the stream of a job that has not completed sets
\* isConnected false and the reconnecting message and leaves the status and
\* the job store untouched; for a completed job it sets no message
C7_TransportError ==
  [][lastOp'.op = "transport_error" =>
       /\ isConnected' = FALSE
       /\ status' = status /\ jobs' = jobs
       /\ IF jobs[connOf(lastOp'.conn).job].status = "completed"
            THEN error' = error
            ELSE error' = ReconnectMsg]_vars

\* the stream of a job that is not terminal in the job store has had a
\* transport error (and has not reopened since)
transportFault(j) ==
  /\ effDeps.jobId = j /\ esRef # NULL /\ streamingJobId = j
  /\ ~isConnected /\ error = ReconnectMsg
  /\ ~isTerminal(jobs[j].status)

\* C8: after a transport error on the stream of a job that is not terminal,
\* once the component has rendered, the poll timer runs for that job
C8_PollingTakesOver ==
  \A j \in created :
    (mounted /\ ~renderNeeded /\ transportFault(j)) => pollTimer = j

\* C9: an error event records its message and sets status failed without
\* closing the connection; the job is shown as failed, and afterwards no status
\* pull and no connection is started for it
C9_JobFaultTerminal ==
  [][/\ lastOp'.op = "error" =>
          /\ status' = "failed" /\ error' # NONE
          /\ connOf(lastOp'.conn).open /\ esRef' = esRef
          /\ lastOp'.job # NULL => jobs'[lastOp'.job].status = "failed"
     /\ \A j \in faulted :
          /\ pollInflight'[j] <= pollInflight[j]
          /\ \A c \in conns' \ conns : c.job # j \/ ~c.open]_vars

\* C10: a malformed message (not parseable, unknown type, node_update without
\* node_id) changes nothing, calls nothing and leaves the connection open
C10_MalformedDropped ==
  [][lastOp'.op = "malformed" =>
       /\ UNCHANGED streamState
       /\ lastOp'.fx = <<>>
       /\ esRef' = esRef /\ openConns(conns')  # {}
       /\ {c.id : c \in openConns(conns')} = {c.id : c \in openConns(conns)}]_vars

\* C10 witness: a malformed message was handled after node and progress data had arrived
C10_Witness ==
  /\ lastOp.op = "malformed" /\ nodes # EmptyFn /\ status = "processing"
  /\ \E c \in conns : c.open /\ c.id = lastOp.conn


\* ------------------------------------------------------------ the mind map
\* the expansion a node has for the reference: its map entry, else true at
\* depth 0 and false at depth >= 1
refExpanded(allNodes, expanded, id) ==
  IF id \in DOMAIN expanded THEN expanded[id] ELSE getNodeDepth(allNodes, id, 0) < 1

\* the least set that holds every root and, with a node that is expanded, the
\* nodes its childIds list
RECURSIVE refClosure(_, _, _)
refClosure(allNodes, expanded, S) ==
  LET S2 == S \cup {c \in nodeIds(allNodes) :
                      \E q \in S : /\ refExpanded(allNodes, expanded, q)
                                   /\ findNode(allNodes, q).hasChildIds
                                   /\ c \in seqRange(findNode(allNodes, q).childIds)}
  IN IF S2 = S THEN S ELSE refClosure(allNodes, expanded, S2)

RefVisible(allNodes, expanded) == refClosure(allNodes, expanded, rootIds(allNodes))

\* every expansion map over the nodes of a universe
AllMaps(allNodes) == UNION {[D -> BOOLEAN] : D \in SUBSET nodeIds(allNodes)}

mmShownIds == {n.id : n \in mmNodes}

\* C11: the visible node set of the graph model is the reference set, for the
\* committed state and for every expansion map over the loaded universe; with
\* an empty map it is the roots and their direct children
C11_VisibleIsReference ==
  mmData # NoData =>
    /\ mmShownIds = RefVisible(mmData.nodes, expandedState)
    /\ mmOp.op = "load" =>
         \A m \in AllMaps(mmData.nodes) :
           visibleNodeIds(mmData.nodes, m) = RefVisible(mmData.nodes, m)
    /\ visibleNodeIds(mmData.nodes, EmptyFn) =
         rootIds(mmData.nodes) \cup
           {c \in nodeIds(mmData.nodes) :
              \E r \in rootIds(mmData.nodes) :
                /\ findNode(mmData.nodes, r).hasChildIds
                /\ c \in seqRange(findNode(mmData.nodes, r).childIds)}

\* C11 witness: after toggles on the graph with a shared child, some nodes are
\* explicitly expanded, some explicitly collapsed, and a node stays hidden
C11_Witness ==
  /\ mmData = GraphB /\ mmOp.op = "toggle"
  /\ \E a, b \in DOMAIN expandedState : expandedState[a] /\ ~expandedState[b]
  /\ "prod-2" \notin mmShownIds /\ "prod-1" \in mmShownIds

\* C12: after the load, every toggle and every replacement the committed edges
\* are exactly the universe's edges with both ends among the committed nodes;
\* an edge with an end that names no node is never committed
C12_EdgesBetweenVisible ==
  mmOp.op \in {"load", "toggle", "replace"} =>
    /\ mmEdges = {e \in mmData.edges : e.source \in mmShownIds /\ e.target \in mmShownIds}
    /\ \A e \in mmEdges : e.source \in nodeIds(mmData.nodes) /\ e.target \in nodeIds(mmData.nodes)

\* C12 witness: a toggle on the graph that has an edge to a missing node left
\* some but not all edges committed
C12_Witness ==
  /\ mmData = GraphB /\ mmOp.op = "toggle"
  /\ mmEdges # {} /\ mmEdges # mmOp.pre.edges
  /\ \E e \in mmData.edges : e.target \notin nodeIds(mmData.nodes) /\ e.source \in mmShownIds

\* the (id, depth) pairs of the walk's visits
RECURSIVE walkVisits(_, _, _, _)
walkVisits(allNodes, expanded, nodeId, depth) ==
  IF nodeId \notin nodeIds(allNodes) THEN {}
  ELSE {<<nodeId, depth>>} \cup
       (IF /\ (IF nodeId \in DOMAIN expanded THEN expanded[nodeId] ELSE depth < 1)
           /\ findNode(allNodes, nodeId).hasChildIds
          THEN UNION {walkVisits(allNodes, expanded, c, depth + 1)
                       : c \in seqRange(findNode(allNodes, nodeId).childIds)}
          ELSE {})

\* whether the walk goes on to the children of id at one of its visits
walkExpands(allNodes, expanded, id) ==
  \E v \in UNION {walkVisits(allNodes, expanded, r, 0) : r \in rootIds(allNodes)} :
    /\ v[1] = id
    /\ (IF id \in DOMAIN expanded THEN expanded[id] ELSE v[2] < 1)

\* C13: a toggle of a shown node flips the expansion the walk uses for it, and
\* a second toggle of the same node right after restores the shown nodes and edges
C13_ToggleRoundTrip ==
  [][mmOp'.op = "toggle" /\ mmOp' # mmOp =>
       /\ walkExpands(mmData.nodes, expandedState', mmOp'.node)
            = ~walkExpands(mmData.nodes, expandedState, mmOp'.node)
       /\ (mmOp'.prevOp = "toggle" /\ mmOp'.prevNode = mmOp'.node) =>
            shown(mmNodes', mmEdges') = mmOp'.pre2]_vars

\* C13 witness: the node without parentId that is also listed as a child was
\* toggled twice in a row, the first toggle having changed what is shown
C13_Witness ==
  /\ mmData = GraphB /\ mmOp.op = "toggle" /\ mmOp.node = "prod-1"
  /\ mmOp.prevOp = "toggle" /\ mmOp.prevNode = "prod-1"
  /\ mmOp.pre # mmOp.pre2

childless(allNodes, id) ==
  ~findNode(allNodes, id).hasChildIds \/ Len(findNode(allNodes, id).childIds) = 0

\* C14: a toggle of a node whose childIds is absent or empty changes neither
\* the shown nodes nor the shown edges, in the sidebar and on the canvas
C14_ChildlessToggle ==
  /\ (mmOp.op = "toggle" /\ childless(mmData.nodes, mmOp.node)) =>
       shown(mmNodes, mmEdges) = mmOp.pre
  /\ (cvOp.op = "toggle" /\ childless(hierarchicalMindMapData.nodes, cvOp.node)) =>
       shown(cvNodes, cvEdges) = cvOp.pre

\* C14 witness: in the sidebar a product without childIds was toggled while the
\* molecule above it was explicitly expanded
C14_Witness ==
  /\ mmData = GraphA /\ mmOp.op = "toggle" /\ mmOp.node = "prod-1"
  /\ "mol-1" \in DOMAIN expandedState /\ expandedState["mol-1"]
  /\ "prod-2" \in mmShownIds

\* C15: after a replacement of the graph the expansion map is empty and what
\* is committed is what the new graph gives with the depth defaults alone
C15_ReplaceResets ==
  mmOp.op = "replace" =>
    /\ expandedState = EmptyFn
    /\ mmShownIds = RefVisible(mmData.nodes, EmptyFn)
    /\ \A n \in mmNodes : n.isExpanded = (getNodeDepth(mmData.nodes, n.id, 0) < 1)
    /\ mmEdges = {e \in mmData.edges : e.source \in mmShownIds /\ e.target \in mmShownIds}

\* C15 witness: the graph was replaced right after a toggle that had changed
\* what was shown
C15_Witness ==
  /\ mmOp.op = "replace" /\ mmOp.prevOp = "toggle" /\ mmOp.pre # mmOp.pre2
  /\ mmData = GraphB


\* ------------------------------------------------------ the chat coordinator
\* C16: a complete event adds at most its final_report as a message, an
\* answered status pull that reports completed adds at most its result.summary,
\* and a run of the simulator adds no message
C16_NoCannedCompletion ==
  [][LET added == messages' \ messages
     IN /\ lastOp'.op = "complete" => added \subseteq ({lastOp'.ev.final_report} \ {NONE})
        /\ (lastOp'.op \in {"poll_workers", "poll_status"} /\ lastOp'.respStatus = "completed")
             => added \subseteq ({lastOp'.respSummary} \ {NONE})
        /\ lastOp'.op = "sim_tick" => added = {}]_vars

\* C16 witness: the simulator completed a job created in the session and the
\* chat holds no message
C16_Witness ==
  /\ lastOp.op = "sim_tick" /\ lastOp.job \in created
  /\ jobs[lastOp.job].status = "completed" /\ messages = {}

\* C17: once a complete event was handled for the job being streamed, the
\* sidebar's pipelineNodes is empty and the step that follows leaves it empty
\* (a node_update of a later job needs that job started first)
C17_PipelineStaysEmpty ==
  [][(lastOp.op = "complete" /\ lastOp.job # NULL)
       => (pipelineNodes = <<>> /\ pipelineNodes' = <<>>)]_vars

\* C18: when the hook holds the first connection of a job id and that
\* connection has delivered nothing yet, the hook's per-job state is fresh: no
\* nodes, isComplete false, progress 0 and status "pending"
C18_FreshPerJob ==
  \A c \in conns :
    (/\ c.open /\ c.id = esRef /\ c.left = MaxEvents
     /\ \A d \in conns : d.job = c.job => d = c)
      => (nodes = EmptyFn /\ ~isComplete /\ progress = 0 /\ status = "pending")

\* the job store shows the current job completed or failed, and the polling
\* effect has run for that status
currentJobDone ==
  /\ currentJobId \in DOMAIN jobs /\ isTerminal(jobs[currentJobId].status)
  /\ pollDeps = pollDepsNow

\* C19: while the job store shows the current job completed or failed, the
\* poll timer is cleared, no status pull is issued for that job and no run of
\* the simulator changes it
C19_NoPollAfterDone ==
  [][currentJobDone
       => /\ pollTimer = NULL
          /\ pollInflight'[currentJobId] <= pollInflight[currentJobId]
          /\ ~(lastOp'.op = "sim_tick" /\ lastOp'.job = currentJobId /\ jobs' # jobs)]_vars

\* a status pull for job j failed in this step (pollJobStatus took its catch branch)
pullFailed(j) ==
  /\ pollInflight'[j] < pollInflight[j]
  /\ lastOp'.op \notin {"poll_workers", "poll_status"}

\* C20: when a status pull fails for a running job created in the session that
\* has a stage below 100, the simulator step it runs advances the progress of
\* a stage in the store
C20_SimulatorAdvances ==
  [][\A j \in created :
       (/\ pullFailed(j) /\ jobs[j].status = "running"
        /\ \E i \in 1..Len(jobs[j].workers) : jobs[j].workers[i].progress < FullProgress)
         => \E i \in 1..Len(jobs[j].workers) :
              jobs'[j].workers[i].progress > jobs[j].workers[i].progress]_vars

\* the step is a run of the simulator for job j that got past its early return
simTick(j) == lastOp'.op = "sim_tick" /\ lastOp'.job = j /\ pullFailed(j)

\* C21: a simulator tick raises each stage below 100 by 5 to 20 (capped at
\* 100), marks it completed exactly when it reaches 100 and running otherwise,
\* and leaves a stage at 100 as it was
C21_TickRaisesStages ==
  [][\A j \in DOMAIN jobs :
       simTick(j) =>
         \A i \in 1..Len(jobs[j].workers) :
           LET before == jobs[j].workers[i]
               after == jobs'[j].workers[i]
           IN IF before.progress < FullProgress
                THEN /\ after.progress \in 0..FullProgress
                     /\ \/ after.progress - before.progress \in 5..20
                        \/ after.progress = FullProgress /\ before.progress >= FullProgress - 20
                     /\ after.status = (IF after.progress = FullProgress
                                          THEN "completed" ELSE "running")
                ELSE after = before]_vars

\* every stage of job j is completed at progress 100 in the job list js
allStagesDone(js, j) ==
  \A i \in 1..Len(js[j].workers) :
    js[j].workers[i].status = "completed" /\ js[j].workers[i].progress = FullProgress

\* C22: a simulator tick that leaves every stage of the job completed also
\* marks the job completed with overall progress 100 and clears the poll timer
C22_DoneWhenStagesDone ==
  [][\A j \in DOMAIN jobs :
       (simTick(j) /\ allStagesDone(jobs', j))
         => (jobs'[j].status = "completed" /\ jobs'[j].progress = FullProgress
             /\ pollTimer' = NULL)]_vars

\* the depth-based default of the toggle: true at depth 0, false below
depthDefault(id) == getNodeDepth(mmData.nodes, id, 0) < 1

\* the expansion of a node as the toggle reads it: the entry, else the default
effective(m, id) == IF id \in DOMAIN m THEN m[id] ELSE depthDefault(id)

\* C23 as stated: the expansion map holds an entry only where the stored
\* value differs from the node's depth-based default
C23_OnlyNonDefault ==
  \A k \in DOMAIN expandedState : expandedState[k] # depthDefault(k)

\* C23 amended: a toggle writes an entry for its node, whatever the value, and
\* keeps the other entries; it flips the node's expansion as read through the
\* map and the default (so two toggles give the expansion back), and the
\* entries are those of nodes toggled since the graph was set
C23_ToggleWritesEntry ==
  [][(mmOp'.op = "toggle" /\ expandedState' # expandedState) =>
       /\ DOMAIN expandedState' = DOMAIN expandedState \cup {mmOp'.node}
       /\ \A k \in DOMAIN expandedState \ {mmOp'.node} : expandedState'[k] = expandedState[k]
       /\ effective(expandedState', mmOp'.node) = ~effective(expandedState, mmOp'.node)]_vars

\* C23 witness: a node was toggled twice in a row and its entry now equals its
\* depth-based default
C23_Witness ==
  /\ mmOp.op = "toggle" /\ mmOp.prevOp = "toggle" /\ mmOp.prevNode = mmOp.node
  /\ mmOp.node \in DOMAIN expandedState
  /\ expandedState[mmOp.node] = depthDefault(mmOp.node)

\* ------------------------------------------------------------ the stream client
\* C24: a progress event leaves the node map (and isComplete, error, the
\* connection) as they were; a node_update event writes the entry of one node
\* id and leaves the other entries, progress, status and isComplete as they
\* were; an end event closes the connection and changes nothing else
C24_EventFrames ==
  [][conns' # conns =>
       /\ lastOp'.op = "progress" =>
            /\ nodes' = nodes /\ isComplete' = isComplete /\ error' = error
            /\ esRef' = esRef /\ isConnected' = isConnected
       /\ lastOp'.op = "node_update" =>
            /\ progress' = progress /\ status' = status /\ isComplete' = isComplete
            /\ error' = error /\ esRef' = esRef /\ isConnected' = isConnected
            /\ \E id \in DOMAIN nodes' :
                 /\ DOMAIN nodes' = DOMAIN nodes \cup {id}
                 /\ \A k \in DOMAIN nodes \ {id} : nodes'[k] = nodes[k]
       /\ lastOp'.op = "end" =>
            /\ nodes' = nodes /\ progress' = progress /\ status' = status
            /\ isComplete' = isComplete /\ error' = error
            /\ esRef' = NULL /\ ~isConnected'
            /\ UNCHANGED <<storeVars, chatVars>>]_vars

\* C24 witness: a node_update was just handled, the node map holds a second
\* node's entry from before, and a progress event had set the progress
C24_Witness ==
  /\ lastOp.op = "node_update" /\ Cardinality(DOMAIN nodes) = 2
  /\ progress # 0 /\ ~isComplete

\* C25: while the hook holds an open stream connection for a job, no poll
\* timer runs for that job and no status pull for it awaits its answer
C25_OneStrategy ==
  \A c \in conns :
    (c.open /\ c.id = esRef) => (pollTimer # c.job /\ pollInflight[c.job] = 0)

\* ------------------------------------------------------------ the polling hooks
\* C26: after startPolling(id) every status pull asks for id: the immediate
\* fetch of startPolling, the fetch of a firing interval while polling is on,
\* and any other pull; and at most one interval is alive
C26_PullsAskStartedJob ==
  [][/\ \A j \in HookJobIds : ujInflight'[j] > ujInflight[j] => j = ujStarted'
     /\ (ujOp'.op = "start" /\ ujInflight' # ujInflight) => ujOp'.asked = ujStarted'
     /\ ujOp'.op = "start" => \E t \in ujTimers' : t.id = ujRef' /\ t.job = ujStarted'
     /\ Cardinality(ujTimers') <= 1]_vars

\* C27: once a pull has reported completed or failed for the hook's job id,
\* and for as long as the job id stays, no pull is issued for it and isPolling
\* is false
C27_NoPullAfterReport ==
  [][(jpReported /\ jpJobId' = jpJobId) =>
       /\ jpInflight'[jpJobId] <= jpInflight[jpJobId]
       /\ ~jpIsPolling']_vars

\* ------------------------------------------------------------ the canvas
\* C28: on the canvas, a node with children toggled twice in a row shows the
\* nodes and edges that were shown before the first toggle, and every edge
\* shown has both ends among the nodes shown
C28_CanvasRoundTrip ==
  /\ (/\ cvOp.op = "toggle" /\ cvOp.prevOp = "toggle" /\ cvOp.prevNode = cvOp.node
      /\ ~childless(hierarchicalMindMapData.nodes, cvOp.node))
       => shown(cvNodes, cvEdges) = cvOp.pre2
  /\ \A e \in cvEdges : e.source \in shownIds(cvNodes) /\ e.target \in shownIds(cvNodes)

\* ------------------------------------------------------------ the job store
\* C29: a job that the store shows completed stays completed, and its progress,
\* once 100, is not lowered
C29_CompletedIsFinal ==
  [][\A j \in DOMAIN jobs :
       jobs[j].status = "completed" =>
         /\ jobs'[j].status = "completed"
         /\ jobs[j].progress >= FullProgress => jobs'[j].progress >= FullProgress]_vars

\* ------------------------------------------------- the stream client's effect
\* C30: while isComplete is true and the job id stays the one the effect last
\* ran for, no step opens a connection
C30_NoReconnectAfterComplete ==
  [][(isComplete /\ effDeps.jobId = streamingJobId /\ streamingJobId' = streamingJobId)
       => {c.id : c \in openConns(conns')} \subseteq {c.id : c \in openConns(conns)}]_vars

====
